---- MODULE Spec2Model ----
(***************************************************************************)
(* Model of the esports-analytics ingestion and prediction pipeline:       *)
(* reconciliation of fetched history into HistoricalMatch rows             *)
(* (update_analytics.Command.store_historical_matches), recomputation of   *)
(* the rolling statistics (Command.update_team_analysis) and the weighted  *)
(* match predictor (predictors.MatchPredictor).                            *)
(*                                                                         *)
(* Conventions.  An optional value (Python None / SQL NULL) is the empty   *)
(* tuple, a present value x is <<x>>.  Python floats are modelled as exact *)
(* fractions <<numerator, denominator>> in lowest terms.  A datetime is a  *)
(* number of minutes.  A Team row is identified by its pandascore_id (the  *)
(* surrogate key Team.id is in one-to-one correspondence with it).         *)
(***************************************************************************)
EXTENDS Integers, Sequences, FiniteSets, TLC

VARIABLES
    Team,              \* pandascore ids of the rows of table Team
    TeamAnalysis,      \* function: team -> its TeamAnalysis row (domain = teams that have one)
    HistoricalMatch,   \* set of rows of table HistoricalMatch
    now,               \* timezone.now(), in minutes
    computed,          \* teams whose analytics update_team_analysis has written
    call,              \* the last operation: its name, arguments and result
    TeamRow,           \* set of rows of table Team, with their fields
    Match,             \* set of rows of table Match
    cache,             \* django.core.cache: key -> [value, expires]
    run,               \* the run of the update_analytics command under way
    proc               \* calls under way in concurrent workers: worker -> its position and
                       \* locals; in the staleness specification: team -> time of its last recompute

vars == <<Team, TeamAnalysis, HistoricalMatch, now, computed, call, TeamRow, Match, cache, run,
          proc>>

(*************************** bounds of the model ***************************)
MaxTeams == 3        \* pandascore ids 1..MaxTeams
MaxPipelineTeams == 2     \* teams the pipeline run of Spec sees in payloads
MaxMatchIds == 2     \* provider match ids 1..MaxMatchIds
MaxBatch == 2        \* longest history payload handed to the store
MaxTicks == 2        \* clock steps of the pipeline specification
MaxStored == 11      \* most rows of the drawn HistoricalMatch tables
MaxElapsed == 5762   \* latest clock reading, in minutes, of the drawn fatigue states
MaxPauses == 6       \* most rate-limited responses in a row of the drawn provider scripts
MaxPauseClock == 6   \* latest clock reading, in minutes, of the rate-limit specification
MaxCacheClock == 720  \* latest clock reading, in minutes, of the cache specification

TeamIds == 1..MaxTeams

(*************************** optional values *******************************)
None == <<>>

\* no call is under way in any worker
NoProc == <<>>

Some(x) == <<x>>

(*************************** float arithmetic ******************************)
RECURSIVE GCD(_, _)
GCD(a, b) == IF b = 0 THEN a ELSE GCD(b, a % b)

\* the fraction n/d (n >= 0, d > 0) in lowest terms
Rat(n, d) == LET g == GCD(n, d) IN <<n \div g, d \div g>>

RAdd(x, y) == Rat(x[1] * y[2] + y[1] * x[2], x[2] * y[2])

\* x - y, for x >= y
RSub(x, y) == Rat(x[1] * y[2] - y[1] * x[2], x[2] * y[2])

RMul(x, y) == Rat(x[1] * y[1], x[2] * y[2])

\* x / y, for y > 0
RDiv(x, y) == Rat(x[1] * y[2], x[2] * y[1])

RLess(x, y) == x[1] * y[2] < y[1] * x[2]

RLeq(x, y) == x[1] * y[2] <= y[1] * x[2]

Zero == Rat(0, 1)

One == Rat(1, 1)

Half == Rat(1, 2)

(*************************** time ******************************************)
\* total_seconds() / 3600 is the elapsed time in hours; the model counts minutes
MinutesPerHour == 3600 \div 60

TickMinutes == 24 * MinutesPerHour

(*************************** TeamAnalysis **********************************)
\* field defaults of a TeamAnalysis row created by get_or_create(team=...)
DefaultAnalysis ==
    [last_ten_winrate |-> Zero, h2h_advantage |-> <<>>, last_match_data |-> None]

\* get_or_create taken for a create: the row of t is written with the defaults
CreateAnalysisAfresh(A, t) ==
    [x \in DOMAIN A \cup {t} |-> IF x = t THEN DefaultAnalysis ELSE A[x]]

\* TeamAnalysis.objects.get_or_create(team=t)[0], as the table after the call
GetOrCreateAnalysis(A, t) ==
    IF t \in DOMAIN A THEN A
    ELSE [x \in DOMAIN A \cup {t} |-> IF x = t THEN DefaultAnalysis ELSE A[x]]

\* analytics.signals is imported by no module of the application (AnalyticsConfig.ready
\* imports only the models), so its post_save receiver is never connected
SignalsImported == FALSE

\* post_save receiver of Team
create_team_analysis(A, t, created) ==
    IF SignalsImported /\ created THEN GetOrCreateAnalysis(A, t) ELSE A

(*************************** Team ******************************************)
\* rows of Team as a test fixture or an earlier run left them: one per id
TeamRowsFor(T) ==
    {[id |-> t, pandascore_id |-> t, name |-> "Team", slug |-> "team",
      image_url |-> None, last_updated |-> 0] : t \in T}

\* mutant: a row is inserted without looking the id up
AlwaysCreateTeam(rows, pid, defaults, t) ==
    LET new == [id |-> Cardinality(rows) + 1, pandascore_id |-> pid,
                name |-> defaults.name, slug |-> defaults.slug,
                image_url |-> defaults.image_url, last_updated |-> t]
    IN  [rows |-> rows \cup {new}, team |-> new, created |-> TRUE]

\* self.get_or_create(pandascore_id=team_id, defaults={...}) at time t;
\* pandascore_id is unique
GetOrCreateTeam(rows, pid, defaults, t) ==
    IF \E r \in rows : r.pandascore_id = pid
    THEN [rows |-> rows,
          team |-> CHOOSE r \in rows : r.pandascore_id = pid,
          created |-> FALSE]
    ELSE LET new == [id |-> Cardinality(rows) + 1, pandascore_id |-> pid,
                     name |-> defaults.name, slug |-> defaults.slug,
                     image_url |-> defaults.image_url, last_updated |-> t]
         IN  [rows |-> rows \cup {new}, team |-> new, created |-> TRUE]

\* mutant: an existing team is saved whether or not a field changed
UpdateAlwaysSaves(rows, api_data, t) ==
    IF api_data.id = None
    THEN [rows |-> rows, team |-> None, created |-> FALSE, writes |-> 0]
    ELSE LET name == IF api_data.name = None THEN "Unknown Team" ELSE api_data.name[1]
             slug == IF api_data.slug = None THEN "" ELSE api_data.slug[1]
             image_url == IF api_data.image_url \in {None, Some("")}
                          THEN None ELSE api_data.image_url
             g == GetOrCreateTeam(rows, api_data.id[1],
                                  [name |-> name, slug |-> slug, image_url |-> image_url], t)
         IN  IF g.created
             THEN [rows |-> g.rows, team |-> Some(api_data.id[1]),
                   created |-> TRUE, writes |-> 1]
             ELSE [rows |-> (rows \ {g.team})
                              \cup {[g.team EXCEPT !.name = name, !.slug = slug,
                                                   !.image_url = image_url,
                                                   !.last_updated = t]},
                   team |-> Some(api_data.id[1]), created |-> FALSE, writes |-> 1]

\* TeamManager.update_from_api(api_data) at time t: the table after the call, the
\* team returned, whether it was created and the number of writes issued.
\* A field of api_data that the payload lacks is None.
update_from_api(rows, api_data, t) ==
    IF api_data.id = None
    THEN [rows |-> rows, team |-> None, created |-> FALSE, writes |-> 0]
    ELSE LET name == IF api_data.name = None THEN "Unknown Team" ELSE api_data.name[1]
             slug == IF api_data.slug = None THEN "" ELSE api_data.slug[1]
             image_url == IF api_data.image_url \in {None, Some("")}
                          THEN None ELSE api_data.image_url
             g == GetOrCreateTeam(rows, api_data.id[1],
                                  [name |-> name, slug |-> slug, image_url |-> image_url], t)
             needs_save == \/ g.team.name # name
                           \/ g.team.slug # slug
                           \/ g.team.image_url # image_url
         IN  IF g.created
             THEN [rows |-> g.rows, team |-> Some(api_data.id[1]),
                   created |-> TRUE, writes |-> 1]
             ELSE IF needs_save
             THEN [rows |-> (rows \ {g.team})
                              \cup {[g.team EXCEPT !.name = name, !.slug = slug,
                                                   !.image_url = image_url,
                                                   !.last_updated = t]},
                   team |-> Some(api_data.id[1]), created |-> FALSE, writes |-> 1]
             ELSE [rows |-> rows, team |-> Some(api_data.id[1]),
                   created |-> FALSE, writes |-> 0]

\* team objects of a provider payload
TeamData(ids, names, slugs, images) ==
    {[id |-> i, name |-> n, slug |-> sl, image_url |-> im] :
        i \in ids, n \in names, sl \in slugs, im \in images}

\* the analysis rows after the post_save signals of update_from_api
AfterTeamSignals(A, u) ==
    IF u.team = None THEN A ELSE create_team_analysis(A, u.team[1], u.created)

(*************************** store_historical_matches **********************)
\* mutant: the duplicate test inverted
MatchExistsInverted(H, mid) == ~ \E r \in H : r.match_id = mid

\* HistoricalMatch.objects.filter(match_id=...).exists()
MatchExists(H, mid) == \E r \in H : r.match_id = mid

\* Team.objects.filter(pandascore_id__in=match_data['team_ids'])
ResolveTeams(T, ids) == {t \in T : \E i \in DOMAIN ids : ids[i] = t}

\* Team.objects.filter(pandascore_id=match_data['winner_id']).first()
ResolveWinner(T, w) == IF w # None /\ w[1] \in T THEN w ELSE None

\* mutant: match_id carries no unique constraint
CreateRaisesOnNull(H, rec) == rec.tournament = None

\* HistoricalMatch.objects.create raises IntegrityError: tournament is NOT NULL,
\* match_id is unique
CreateRaises(H, rec) ==
    \/ rec.tournament = None
    \/ \E r \in H : r.match_id = rec.match_id

\* HistoricalMatch.objects.create(...) followed by match.teams.set(teams)
CreateHistoricalMatch(H, rec, winner, teams) ==
    H \cup {[id |-> Cardinality(H) + 1,
             match_id |-> rec.match_id,
             date |-> rec.date,
             tournament |-> rec.tournament[1],
             winner |-> winner[1],
             teams |-> teams]}

\* the try block of the loop for one record: the two validations, then create
\* and teams.set; an exception is caught and logged by the except clause
TryCreate(H, T, rec) ==
    LET teams == ResolveTeams(T, rec.team_ids)
        winner == ResolveWinner(T, rec.winner_id)
    IN  IF Cardinality(teams) < 2 THEN H
        ELSE IF winner = None THEN H
        ELSE IF CreateRaises(H, rec) THEN H
        ELSE CreateHistoricalMatch(H, rec, winner, teams)

\* mutant: a record whose external id is stored replaces the stored row
StoreOneUpserts(H, T, rec) ==
    LET H0 == {r \in H : r.match_id # rec.match_id}
        teams == ResolveTeams(T, rec.team_ids)
        winner == ResolveWinner(T, rec.winner_id)
    IN  IF Cardinality(teams) < 2 THEN H
        ELSE IF winner = None THEN H
        ELSE IF CreateRaises(H0, rec) THEN H
        ELSE CreateHistoricalMatch(H0, rec, winner, teams)

\* the body of the loop of store_historical_matches for one record
StoreOne(H, T, rec) ==
    IF MatchExists(H, rec.match_id) THEN H
    ELSE LET teams == ResolveTeams(T, rec.team_ids)
             winner == ResolveWinner(T, rec.winner_id)
         IN  IF Cardinality(teams) < 2 THEN H
             ELSE IF winner = None THEN H
             ELSE IF CreateRaises(H, rec) THEN H
             ELSE CreateHistoricalMatch(H, rec, winner, teams)

\* mutant: the first record that is not stored ends the loop
RECURSIVE StoreUntilFailure(_, _, _)
StoreUntilFailure(H, T, historical_data) ==
    IF historical_data = <<>> THEN H
    ELSE LET H1 == StoreOne(H, T, Head(historical_data))
         IN  IF H1 = H THEN H ELSE StoreUntilFailure(H1, T, Tail(historical_data))

RECURSIVE store_historical_matches(_, _, _)
store_historical_matches(H, T, historical_data) ==
    IF historical_data = <<>> THEN H
    ELSE store_historical_matches(StoreOne(H, T, Head(historical_data)), T,
                                  Tail(historical_data))

\* the body of the loop for one record when the database fails under
\* match.teams.set(teams): create has committed the row, no association row is
\* written, the except clause logs the error
StoreOneSetFails(H, T, rec) ==
    IF MatchExists(H, rec.match_id) THEN H
    ELSE LET teams == ResolveTeams(T, rec.team_ids)
             winner == ResolveWinner(T, rec.winner_id)
         IN  IF Cardinality(teams) < 2 THEN H
             ELSE IF winner = None THEN H
             ELSE IF CreateRaises(H, rec) THEN H
             ELSE CreateHistoricalMatch(H, rec, winner, {})

\* store_historical_matches when the database fails under the teams.set of
\* record number k: the loop goes on with the records after it
StoreWithSetFault(H, T, historical_data, k) ==
    LET before == store_historical_matches(H, T, SubSeq(historical_data, 1, k - 1))
        failed == StoreOneSetFails(before, T, historical_data[k])
    IN  store_historical_matches(failed, T,
                                 SubSeq(historical_data, k + 1, Len(historical_data)))

(*************************** update_team_analysis **************************)
\* the slice [:10] of the date-ordered query
WindowSize == 10

\* HistoricalMatch.objects.filter(teams=team)
TeamMatches(H, t) == {r \in H : t \in r.teams}

\* mutant: the slice [:10] dropped
AllMatchesWindow(H, t) == {TeamMatches(H, t)}

\* the lists .order_by('-date')[:10] can return, as sets of rows: rows of equal
\* date come in an order the database chooses
RecentWindows(H, t) ==
    LET M == TeamMatches(H, t)
        k == IF Cardinality(M) < WindowSize THEN Cardinality(M) ELSE WindowSize
        Newer(d) == {r \in M : r.date > d}
        At(d) == {r \in M : r.date = d}
    IN  IF Cardinality(M) = k THEN {M}
        ELSE LET cut == CHOOSE d \in {r.date : r \in M} :
                            /\ Cardinality(Newer(d)) < k
                            /\ Cardinality(Newer(d)) + Cardinality(At(d)) >= k
             IN  {Newer(cut) \cup S :
                    S \in {X \in SUBSET At(cut) :
                              Cardinality(X) = k - Cardinality(Newer(cut))}}

\* recent_matches_list[0].date
FirstDate(W) == CHOOSE d \in {r.date : r \in W} : \A r \in W : r.date <= d

\* mutant: no early return on an empty window, the fields are reset
UpdateResetsOnEmpty(A, t, W) ==
    LET A1 == GetOrCreateAnalysis(A, t)
        total == Cardinality(W)
        wins == Cardinality({r \in W : r.winner = t})
    IN  IF total = 0
        THEN [A1 EXCEPT ![t].last_ten_winrate = Zero, ![t].last_match_data = None]
        ELSE [A1 EXCEPT ![t].last_ten_winrate = Rat(wins, total),
                        ![t].last_match_data = Some(FirstDate(W))]

\* mutant: the last-match timestamp is written to every participant of the window
UpdateTouchesOpponents(A, t, W) ==
    LET A1 == GetOrCreateAnalysis(A, t)
        total == Cardinality(W)
        wins == Cardinality({r \in W : r.winner = t})
        touched == DOMAIN A1 \cap UNION {r.teams : r \in W}
    IN  IF total = 0 THEN A1
        ELSE [x \in DOMAIN A1 |->
                 IF x = t
                 THEN [A1[x] EXCEPT !.last_ten_winrate = Rat(wins, total),
                                    !.last_match_data = Some(FirstDate(W))]
                 ELSE IF x \in touched
                 THEN [A1[x] EXCEPT !.last_match_data = Some(FirstDate(W))]
                 ELSE A1[x]]

\* mutant: the new win rate is averaged with the stored one
UpdateBlendsPrior(A, t, W) ==
    LET A1 == GetOrCreateAnalysis(A, t)
        total == Cardinality(W)
        wins == Cardinality({r \in W : r.winner = t})
    IN  IF total = 0 THEN A1
        ELSE [A1 EXCEPT ![t].last_ten_winrate =
                            RDiv(RAdd(A1[t].last_ten_winrate, Rat(wins, total)), Rat(2, 1)),
                        ![t].last_match_data = Some(FirstDate(W))]

\* Command.update_team_analysis(team) on the window W, as the table after the call
update_team_analysis(A, t, W) ==
    LET A1 == GetOrCreateAnalysis(A, t)
        total == Cardinality(W)
        wins == Cardinality({r \in W : r.winner = t})
    IN  IF total = 0 THEN A1
        ELSE [A1 EXCEPT ![t].last_ten_winrate = Rat(wins, total),
                        ![t].last_match_data = Some(FirstDate(W))]

(*************************** TeamAnalysis.update_from_history **************)
\* mutant: the wins are counted over every match of the team, not over the ids
CountsWinsOverAllMatches(A, H, t, last_ten_ids, counted) ==
    LET total == Cardinality(last_ten_ids)
        wins == Cardinality({r \in TeamMatches(H, t) : r.winner = t})
    IN  IF last_ten_ids = {} THEN A
        ELSE [A EXCEPT ![t].last_ten_winrate = Rat(wins, total),
                       ![t].last_match_data = Some(FirstDate(TeamMatches(H, t)))]

\* TeamAnalysis.update_from_history() of the row of team t, as the table after
\* the call. last_ten_ids are the rows of the evaluated id list; the count of
\* the wins runs the sliced query again as a subquery of id__in, counted being
\* the rows it selects; the timestamp is read by a third query, .first() of the
\* date-ordered matches of the team
update_from_history(A, H, t, last_ten_ids, counted) ==
    LET total == Cardinality(last_ten_ids)
        wins == Cardinality({r \in counted : r.winner = t})
    IN  IF last_ten_ids = {} THEN A
        ELSE [A EXCEPT ![t].last_ten_winrate = Rat(wins, total),
                       ![t].last_match_data = Some(FirstDate(TeamMatches(H, t)))]

\* mutant: the win rate is written by a statement of its own
SaveWinrateOnly(A, t, obj) == [A EXCEPT ![t].last_ten_winrate = obj.last_ten_winrate]

\* analysis.save(): one UPDATE that writes every field of the row from the object
SaveAnalysis(A, t, obj) == [A EXCEPT ![t] = obj]

(*************************** MatchPredictor ********************************)
calculate_winrate(a) ==
    IF a.last_ten_winrate = None THEN Half ELSE a.last_ten_winrate

\* mutant: a falsy stored value is taken for a missing one
H2hFalsyIsMissing(a, away) ==
    LET opponent_id == ToString(away)
        h2h_data == a.h2h_advantage
    IN  IF opponent_id \notin DOMAIN h2h_data \/ h2h_data[opponent_id] = Zero
        THEN Half ELSE h2h_data[opponent_id]

\* _calculate_h2h, a the home team's analysis
calculate_h2h(a, away) ==
    LET opponent_id == ToString(away)
        h2h_data == a.h2h_advantage
    IN  IF DOMAIN h2h_data = {} \/ opponent_id \notin DOMAIN h2h_data
        THEN Half ELSE h2h_data[opponent_id]

\* mutant: the boundaries belong to the lower step
FatigueBoundaryLow(a, t) ==
    IF a.last_match_data = None THEN One
    ELSE LET since == t - a.last_match_data[1]
         IN  IF since <= 24 * MinutesPerHour THEN Zero
             ELSE IF since <= 48 * MinutesPerHour THEN Rat(1, 4)
             ELSE IF since <= 72 * MinutesPerHour THEN Rat(1, 2)
             ELSE IF since <= 96 * MinutesPerHour THEN Rat(3, 4)
             ELSE One

\* _calculate_fatigue at time t: hours_since_last < h  iff  minutes < h * 60
calculate_fatigue(a, t) ==
    IF a.last_match_data = None THEN One
    ELSE LET since == t - a.last_match_data[1]
         IN  IF since < 24 * MinutesPerHour THEN Zero
             ELSE IF since < 48 * MinutesPerHour THEN Rat(1, 4)
             ELSE IF since < 72 * MinutesPerHour THEN Rat(1, 2)
             ELSE IF since < 96 * MinutesPerHour THEN Rat(3, 4)
             ELSE One

\* the weights 0.6, 0.3 and 0.1
WinrateWeight == Rat(6, 10)

H2hWeight == Rat(3, 10)

FatigueWeight == Rat(1, 10)

home_score(home_winrate, h2h, home_fatigue) ==
    RAdd(RAdd(RMul(home_winrate, WinrateWeight), RMul(h2h, H2hWeight)),
         RMul(home_fatigue, FatigueWeight))

\* mutant: the away side is credited with the home side's head-to-head share
AwayScoreSharesH2h(away_winrate, h2h, away_fatigue) ==
    RAdd(RAdd(RMul(away_winrate, WinrateWeight), RMul(h2h, H2hWeight)),
         RMul(away_fatigue, FatigueWeight))

away_score(away_winrate, h2h, away_fatigue) ==
    RAdd(RAdd(RMul(away_winrate, WinrateWeight), RMul(RSub(One, h2h), H2hWeight)),
         RMul(away_fatigue, FatigueWeight))

\* mutant: a tie goes to the home side
DecideTieHome(home, away, hs, as) ==
    LET total == RAdd(hs, as)
    IN  IF total = Zero THEN [winner |-> None, confidence |-> Half]
        ELSE LET home_confidence == RDiv(hs, total)
                 away_confidence == RDiv(as, total)
             IN  IF RLeq(away_confidence, home_confidence)
                 THEN [winner |-> Some(home), confidence |-> home_confidence]
                 ELSE [winner |-> Some(away), confidence |-> away_confidence]

\* mutant: the home side's confidence is reported whoever wins
DecideHomeConfidence(home, away, hs, as) ==
    LET total == RAdd(hs, as)
    IN  IF total = Zero THEN [winner |-> None, confidence |-> Half]
        ELSE LET home_confidence == RDiv(hs, total)
                 away_confidence == RDiv(as, total)
             IN  IF RLess(away_confidence, home_confidence)
                 THEN [winner |-> Some(home), confidence |-> home_confidence]
                 ELSE [winner |-> Some(away), confidence |-> home_confidence]

\* "Determine winner and confidence" of predict
Decide(home, away, hs, as) ==
    LET total == RAdd(hs, as)
    IN  IF total = Zero THEN [winner |-> None, confidence |-> Half]
        ELSE LET home_confidence == RDiv(hs, total)
                 away_confidence == RDiv(as, total)
             IN  IF RLess(away_confidence, home_confidence)
                 THEN [winner |-> Some(home), confidence |-> home_confidence]
                 ELSE [winner |-> Some(away), confidence |-> away_confidence]

\* mutant: the head-to-head factor is read from the away team's mapping, from
\* the away side's point of view
PredictReadsAwayH2h(A, home, away, t) ==
    LET home_winrate == calculate_winrate(A[home])
        away_winrate == calculate_winrate(A[away])
        h2h == RSub(One, calculate_h2h(A[away], home))
        home_fatigue == calculate_fatigue(A[home], t)
        away_fatigue == calculate_fatigue(A[away], t)
        d == Decide(home, away, home_score(home_winrate, h2h, home_fatigue),
                    away_score(away_winrate, h2h, away_fatigue))
    IN  [winner |-> d.winner,
         confidence |-> d.confidence,
         factors |-> [winrate |-> [home |-> home_winrate, away |-> away_winrate],
                      h2h |-> h2h,
                      fatigue |-> [home |-> home_fatigue, away |-> away_fatigue]]]

\* MatchPredictor(home, away).predict() over the analysis table A at time t
predict(A, home, away, t) ==
    LET home_winrate == calculate_winrate(A[home])
        away_winrate == calculate_winrate(A[away])
        h2h == calculate_h2h(A[home], away)
        home_fatigue == calculate_fatigue(A[home], t)
        away_fatigue == calculate_fatigue(A[away], t)
        d == Decide(home, away, home_score(home_winrate, h2h, home_fatigue),
                    away_score(away_winrate, h2h, away_fatigue))
    IN  [winner |-> d.winner,
         confidence |-> d.confidence,
         factors |-> [winrate |-> [home |-> home_winrate, away |-> away_winrate],
                      h2h |-> h2h,
                      fatigue |-> [home |-> home_fatigue, away |-> away_fatigue]]]

(*************************** payloads **************************************)
\* match_id of a parsed record: str(api_data.get('id'))
MatchIdStr(i) == ToString(i)

Records(mids, dates, tournaments, lists, winners) ==
    {[match_id |-> MatchIdStr(m), date |-> d, tournament |-> tn,
      team_ids |-> l, winner_id |-> w] :
        m \in mids, d \in dates, tn \in tournaments, l \in lists, w \in winners}

Batches(R, n) == UNION {[1..k -> R] : k \in 0..n}

\* payloads of the reconciliation specification: for each match id a well-formed
\* record won by either side, a record won by a third team, a record without a
\* winner, one listing the same team twice and one whose league name is null
StoreRecords ==
    Records(1..MaxMatchIds, {TickMinutes}, {Some("Cup")}, {<<1, 2>>},
            {Some(1), Some(2), Some(3), None})
    \cup Records(1..MaxMatchIds, {TickMinutes}, {Some("Cup")}, {<<1, 1>>}, {Some(1)})
    \cup Records(1..MaxMatchIds, {TickMinutes}, {None}, {<<1, 2>>}, {Some(1)})

(*************************** DataFetcher ***********************************)
\* A response of the provider: status 0 stands for a request that raised
\* before any response (timeout, connection error); reset is the
\* X-Rate-Limit-Reset header, None when absent; json tells whether the body
\* is a JSON list, another JSON value ("object") or not JSON ("invalid").
Response(status, reset, json, items) ==
    [status |-> status, reset |-> reset, json |-> json, items |-> items]

\* int(s) for the header strings of the modelled responses
ParseInt(s) ==
    CASE s = "60" -> Some(60)
      [] s = "120" -> Some(120)
      [] OTHER -> None

Minutes(seconds) == seconds \div 60

\* the arguments fetch_matches() takes when called without any
DefaultArgs == [game |-> "csgo", status |-> "running,not_started", page_size |-> 20]

\* mutant: the handler catches the request errors only
CatchesRequestErrors(exc) == exc \in {"Timeout", "HTTPError"}

\* except Exception: every exception class the body raises is caught
Catches(exc) == exc \in {"Timeout", "HTTPError", "ValueError", "JSONDecodeError", "RetryError"}

Returned(value, s) == [kind |-> "return", value |-> value, exc |-> "", s |-> s]

Raised(exc, s) == [kind |-> "raise", value |-> <<>>, exc |-> exc, s |-> s]

\* the provider has not answered the last request within the modelled run
Pending(s) == [kind |-> "pending", value |-> <<>>, exc |-> "", s |-> s]

\* the first game of the series that has not started names the next map
RECURSIVE NextMap(_)
NextMap(games) ==
    IF games = <<>> THEN None
    ELSE IF Head(games).status = "not_started" THEN Head(games).map
    ELSE NextMap(Tail(games))

\* team = update_team_from_api(opponents[i - 1]['opponent']) when the match
\* has that many opponents, else team = None
OpponentTeam(opponents, i, rows, t) ==
    IF Len(opponents) >= i
    THEN update_from_api(rows, opponents[i], t)
    ELSE [rows |-> rows, team |-> None, created |-> FALSE, writes |-> 0]

\* the record appended for a match whose opponents gave u1 and u2, and the
\* tables after the two upserts
ParsedRecord(match, game, s, u1, u2) ==
    [record |-> [pandascore_id |-> match.id, name |-> match.name,
                 team1 |-> u1.team, team2 |-> u2.team,
                 start_time |-> match.begin_at,
                 tournament |-> match.league, status |-> match.status,
                 game |-> game, next_map |-> NextMap(match.games)],
     s |-> [s EXCEPT !.rows = u2.rows,
                     !.analyses = AfterTeamSignals(AfterTeamSignals(@, u1), u2)]]

SecondOpponent(match, game, s, u1) ==
    ParsedRecord(match, game, s, u1, OpponentTeam(match.opponents, 2, u1.rows, s.t))

\* one iteration of the loop of _parse_matches
ParseMatch(match, game, s) ==
    SecondOpponent(match, game, s, OpponentTeam(match.opponents, 1, s.rows, s.t))

RECURSIVE parse_matches(_, _, _)

ParseRest(one, data, game) ==
    [parsed |-> <<one.record>> \o parse_matches(data, game, one.s).parsed,
     s |-> parse_matches(data, game, one.s).s]

\* DataFetcher._parse_matches on a JSON list: the opponents are upserted and
\* one record is appended per match
parse_matches(data, game, s) ==
    IF data = <<>> THEN [parsed |-> <<>>, s |-> s]
    ELSE ParseRest(ParseMatch(Head(data), game, s), Tail(data), game)

StopAfterAttempt == 3

RECURSIVE fetch_matches_attempt(_, _, _)
RECURSIVE fetch_matches_body(_, _)

\* DataFetcher.fetch_matches(game, status, page_size) as callers see it: the
\* body under @retry(stop=stop_after_attempt(3), ...). The run state s holds the
\* responses the provider will give, the requests issued and the pauses taken
\* so far, the Team and TeamAnalysis tables and the clock.
fetch_matches(args, s) == fetch_matches_attempt(args, s, 1)

\* tenacity: the body is called again only when it raised, until the attempt
\* limit, after which RetryError is raised
fetch_matches_attempt(args, s, n) ==
    LET o == fetch_matches_body(args, [s EXCEPT !.attempts = @ + 1])
    IN  IF o.kind # "raise" THEN o
        ELSE IF n >= StopAfterAttempt THEN Raised("RetryError", o.s)
        ELSE fetch_matches_attempt(args, o.s, n + 1)

\* the body of fetch_matches: one request, and on a 429 a pause followed by
\* self.fetch_matches()
fetch_matches_body(args, s) ==
    IF s.script = <<>> THEN Pending(s)
    ELSE
    LET response == Head(s.script)
        s1 == [s EXCEPT !.script = Tail(@), !.requests = Append(@, args)]
        reset_time == IF response.reset = None THEN Some(60)
                      ELSE ParseInt(response.reset[1])
        tried ==
            IF response.status = 0 THEN Raised("Timeout", s1)
            ELSE IF response.status = 429
            THEN IF reset_time = None THEN Raised("ValueError", s1)
                 ELSE fetch_matches(DefaultArgs,
                        [s1 EXCEPT !.slept = Append(@, reset_time[1]),
                                   !.t = @ + Minutes(reset_time[1])])
            ELSE IF response.status >= 400 THEN Raised("HTTPError", s1)
            ELSE IF response.json = "invalid" THEN Raised("JSONDecodeError", s1)
            ELSE IF response.json # "list" THEN Returned(<<>>, s1)
            ELSE LET p == parse_matches(response.items, args.game, s1)
                 IN  Returned(p.parsed, p.s)
    IN  IF tried.kind = "raise" /\ Catches(tried.exc)
        THEN Returned(<<>>, tried.s)
        ELSE tried

\* the run state at the start of a call
RunState(script, rows, analyses, t) ==
    [script |-> script, requests |-> <<>>, slept |-> <<>>, attempts |-> 0,
     rows |-> rows, analyses |-> analyses, t |-> t]

\* a match object of the live endpoint
RawMatch(id, opponents, begin_at, games) ==
    [id |-> id, name |-> "M", opponents |-> opponents, begin_at |-> begin_at,
     league |-> "Cup", status |-> "running", games |-> games]

(*************************** fetch_team_history ****************************)
\* parse_datetime and begin_at: the ISO-8601 strings of the modelled payloads,
\* as minutes since the epoch; None for a string that is not a date
ParseDatetime(str) ==
    CASE str = "1970-01-02T00:00:00Z" -> Some(TickMinutes)
      [] str = "1970-01-03T00:00:00Z" -> Some(2 * TickMinutes)
      [] OTHER -> None

CacheTimeout == 21600

CacheKey(team_id) == <<"team_history", ToString(team_id)>>

\* mutant: an entry is returned whatever its age
CacheGetStale(c, key, t) ==
    IF key \in DOMAIN c THEN Some(c[key].value) ELSE None

\* cache.get(key) at time t: None on a miss or an expired entry
CacheGet(c, key, t) ==
    IF key \in DOMAIN c /\ t < c[key].expires THEN Some(c[key].value) ELSE None

\* the backend drops an entry found expired
CacheCull(c, key, t) ==
    IF key \in DOMAIN c /\ ~(t < c[key].expires)
    THEN [k \in DOMAIN c \ {key} |-> c[k]]
    ELSE c

\* cache.set(key, value, timeout) at time t
CacheSet(c, key, value, timeout, t) ==
    [k \in DOMAIN c \cup {key} |->
        IF k = key THEN [value |-> value, expires |-> t + Minutes(timeout)] ELSE c[k]]

\* a match object of the history endpoint; league is None when the object
\* has no league, Some(None) when its league is null, else the league's name
RawHistory(id, begin_at, league, winner, opponents) ==
    [id |-> id, begin_at |-> begin_at, league |-> league, winner |-> winner,
     opponents |-> opponents]

\* DataFetcher._parse_historical_match: None when the match has no usable date,
\* and None from the except clause when reading the name of a null league
\* raises AttributeError
parse_historical_match(api_data) ==
    IF api_data.begin_at = None THEN None
    ELSE IF ParseDatetime(api_data.begin_at[1]) = None THEN None
    ELSE IF api_data.league = Some(None) THEN None
    ELSE Some([match_id |-> ToString(api_data.id),
               date |-> ParseDatetime(api_data.begin_at[1])[1],
               tournament |-> IF api_data.league = None
                              THEN Some("Unknown Tournament")
                              ELSE api_data.league[1],
               team_ids |-> api_data.opponents,
               winner_id |-> api_data.winner])

\* mutant: the loop over the response ends at the first record dropped
RECURSIVE ParseHistoryUntilDrop(_)
ParseHistoryUntilDrop(items) ==
    IF items = <<>> \/ parse_historical_match(Head(items)) = None THEN <<>>
    ELSE parse_historical_match(Head(items)) \o ParseHistoryUntilDrop(Tail(items))

\* the loop of fetch_team_history over response.json()
RECURSIVE ParseHistory(_)
ParseHistory(items) ==
    IF items = <<>> THEN <<>>
    ELSE parse_historical_match(Head(items)) \o ParseHistory(Tail(items))

\* mutant: the except clause caches the empty list it returns
FetchHistoryCachesFailure(team_id, response, c, t) ==
    LET cache_key == CacheKey(team_id)
        cached_data == CacheGet(c, cache_key, t)
        c1 == CacheCull(c, cache_key, t)
        exc == IF response.status = 0 THEN "Timeout"
               ELSE IF response.status >= 400 THEN "HTTPError"
               ELSE IF response.json = "invalid" THEN "JSONDecodeError"
               ELSE ""
        historical_data == IF response.json = "list"
                           THEN ParseHistory(response.items) ELSE <<>>
    IN  IF cached_data # None /\ cached_data[1] # <<>>
        THEN [kind |-> "return", value |-> cached_data[1], requests |-> 0, cache |-> c1]
        ELSE IF exc # ""
        THEN [kind |-> "return", value |-> <<>>, requests |-> 1,
              cache |-> CacheSet(c1, cache_key, <<>>, CacheTimeout, t)]
        ELSE [kind |-> "return", value |-> historical_data, requests |-> 1,
              cache |-> CacheSet(c1, cache_key, historical_data, CacheTimeout, t)]

\* DataFetcher.fetch_team_history(team_id) at time t when the provider would
\* answer response: the value returned or the exception raised, the number of
\* requests issued and the cache afterwards. A cached value is used only when
\* it is truthy; a JSON object body iterates over its keys, none of which
\* parses to a match.
fetch_team_history(team_id, response, c, t) ==
    LET cache_key == CacheKey(team_id)
        cached_data == CacheGet(c, cache_key, t)
        c1 == CacheCull(c, cache_key, t)
        exc == IF response.status = 0 THEN "Timeout"
               ELSE IF response.status >= 400 THEN "HTTPError"
               ELSE IF response.json = "invalid" THEN "JSONDecodeError"
               ELSE ""
        historical_data == IF response.json = "list"
                           THEN ParseHistory(response.items) ELSE <<>>
    IN  IF cached_data # None /\ cached_data[1] # <<>>
        THEN [kind |-> "return", value |-> cached_data[1], requests |-> 0, cache |-> c1]
        ELSE IF exc # ""
        THEN IF Catches(exc)
             THEN [kind |-> "return", value |-> <<>>, requests |-> 1, cache |-> c1]
             ELSE [kind |-> "raise", value |-> <<>>, requests |-> 1, cache |-> c1]
        ELSE [kind |-> "return", value |-> historical_data, requests |-> 1,
              cache |-> CacheSet(c1, cache_key, historical_data, CacheTimeout, t)]

(*************************** save_matches_to_db ****************************)
\* a record as _parse_matches builds it; team1 and team2 are the external ids
\* of the Team objects, None for no team
ParsedMatch(id, team1, team2, start_time, next_map) ==
    [pandascore_id |-> id, name |-> "M", team1 |-> team1, team2 |-> team2,
     start_time |-> start_time, tournament |-> "Cup", status |-> "running",
     game |-> "csgo", next_map |-> next_map]

\* the validation of the loop: the record has team1, team2 and start_time
HasRequiredFields(match_data) ==
    /\ match_data.team1 # None
    /\ match_data.team2 # None
    /\ match_data.start_time # None

\* the column values of the defaults: next_map is `next_map or None`
MatchDefaults(match_data) ==
    [name |-> match_data.name, team1 |-> match_data.team1,
     team2 |-> match_data.team2,
     start_time |-> IF match_data.start_time = None THEN None
                    ELSE ParseDatetime(match_data.start_time[1]),
     tournament |-> match_data.tournament, status |-> match_data.status,
     game |-> match_data.game,
     next_map |-> IF match_data.next_map = Some("") THEN None
                  ELSE match_data.next_map]

\* the database rejects the row: start_time and next_map are NOT NULL
MatchSaveRaises(defaults) == defaults.start_time = None \/ defaults.next_map = None

\* Match.objects.update_or_create(pandascore_id=..., defaults=...) at time t
UpdateOrCreateMatch(M, pid, defaults, t) ==
    LET fields == [name |-> defaults.name, team1 |-> defaults.team1,
                   team2 |-> defaults.team2, start_time |-> defaults.start_time[1],
                   tournament |-> defaults.tournament, status |-> defaults.status,
                   game |-> defaults.game, next_map |-> defaults.next_map[1],
                   last_updated |-> t]
        old == {r \in M : r.pandascore_id = pid}
        id == IF old = {} THEN Cardinality(M) + 1 ELSE (CHOOSE r \in old : TRUE).id
    IN  (M \ old) \cup {[id |-> id, pandascore_id |-> pid, fields |-> fields]}

\* DataFetcher.save_matches_to_db(matches) at time t: the loop only validates;
\* the write that follows it acts on the record the loop ended on. With an
\* empty batch that record is unbound and the error handler itself raises.
save_matches_to_db(M, matches, t) ==
    IF matches = <<>>
    THEN [rows |-> M, saved_count |-> 0, raised |-> TRUE, result |-> FALSE]
    ELSE LET match_data == matches[Len(matches)]
             defaults == MatchDefaults(match_data)
         IN  IF MatchSaveRaises(defaults)
             THEN [rows |-> M, saved_count |-> 0, raised |-> FALSE, result |-> FALSE]
             ELSE [rows |-> UpdateOrCreateMatch(M, match_data.pandascore_id, defaults, t),
                   saved_count |-> 1, raised |-> FALSE, result |-> TRUE]

(*************************** Command.handle ********************************)
\* no run of the command is under way
NoRun == [phase |-> "idle", selected |-> {}, queue |-> <<>>, processed |-> {},
          failed |-> {}]

\* Command.get_teams_to_update(force_update, specific_team), as the external ids
\* of the teams of the query set. Without the force flag the query filters on
\* analysis__last_updated, a field TeamAnalysis does not have, and building the
\* filter raises FieldError.
get_teams_to_update(rows, force_update, specific_team) ==
    LET base_query == IF specific_team # None /\ specific_team[1] # 0
                      THEN {r \in rows : r.pandascore_id = specific_team[1]}
                      ELSE rows
    IN  IF force_update
        THEN [raised |-> FALSE, teams |-> {r.pandascore_id : r \in base_query}]
        ELSE [raised |-> TRUE, teams |-> {}]

\* the orders in which the query set can yield its rows
Orders(S) ==
    {q \in [1..Cardinality(S) -> S] :
        \A i \in DOMAIN q, j \in DOMAIN q : i # j => q[i] # q[j]}

\* the store step of process_team when the database fails at the first query
\* of record number k + 1: the records before it have been handled
StoreBeforeFault(H, T, historical_data, k) ==
    store_historical_matches(H, T, SubSeq(historical_data, 1, k))

\* mutant: the analytics are computed before the fetched history is stored
WindowsBeforeStore(H, T, team, historical_data) == RecentWindows(H, team)

\* process_team: the windows update_team_analysis can read, store_historical_matches
\* having handled the fetched history
ProcessTeamWindows(H, T, team, historical_data) ==
    RecentWindows(store_historical_matches(H, T, historical_data), team)

\* mutant: an exception of process_team ends the run
AbortOnFailure(r, team, raised) ==
    IF raised
    THEN [r EXCEPT !.phase = "crashed", !.queue = Tail(@), !.failed = @ \cup {team}]
    ELSE [r EXCEPT !.phase = IF Tail(r.queue) = <<>> THEN "done" ELSE "processing",
                   !.queue = Tail(@), !.processed = @ \cup {team}]

\* one iteration of the loop of handle: process_team under try/except, then the
\* next team, or the end of the run after the last one
AfterTeam(r, team, raised) ==
    [r EXCEPT !.phase = IF Tail(r.queue) = <<>> THEN "done" ELSE "processing",
              !.queue = Tail(@),
              !.processed = IF raised THEN @ ELSE @ \cup {team},
              !.failed = IF raised THEN @ \cup {team} ELSE @]

(*************************** actions ***************************************)
\* Command.store_historical_matches(historical_data)
StoreHistoricalMatches(R) ==
    \E batch \in Batches(R, MaxBatch) :
        /\ HistoricalMatch' = store_historical_matches(HistoricalMatch, Team, batch)
        /\ call' = [op |-> "store", batch |-> batch]
        /\ UNCHANGED <<Team, TeamAnalysis, now, computed, TeamRow, Match, cache, run, proc>>

NoCall == [op |-> "none"]

\* Command.store_historical_matches(historical_data) when the database fails
\* under the teams.set of record number k, which create has stored
StoreHistoricalMatchesSetFails(R) ==
    \E batch \in Batches(R, MaxBatch) : \E k \in 1..Len(batch) :
        LET before == store_historical_matches(HistoricalMatch, Team,
                                               SubSeq(batch, 1, k - 1))
        IN  /\ StoreOne(before, Team, batch[k]) # before
            /\ HistoricalMatch' = StoreWithSetFault(HistoricalMatch, Team, batch, k)
            /\ call' = [op |-> "store_fault", batch |-> batch, at |-> k]
            /\ UNCHANGED <<Team, TeamAnalysis, now, computed, TeamRow, Match, cache, run, proc>>

\* update_team_from_api(api_data)
UpsertTeam(api_data) ==
    LET u == update_from_api(TeamRow, api_data, now)
    IN  /\ TeamRow' = u.rows
        /\ Team' = {r.pandascore_id : r \in u.rows}
        /\ TeamAnalysis' = AfterTeamSignals(TeamAnalysis, u)
        /\ call' = [op |-> "upsert", api_data |-> api_data, team |-> u.team,
                    created |-> u.created, writes |-> u.writes]
        /\ UNCHANGED <<HistoricalMatch, now, computed, Match, cache, run, proc>>

\* Command.update_team_analysis(team)
UpdateTeamAnalysis(t) ==
    /\ t \in Team
    /\ \E W \in RecentWindows(HistoricalMatch, t) :
        /\ TeamAnalysis' = update_team_analysis(TeamAnalysis, t, W)
        /\ computed' = IF W = {} THEN computed ELSE computed \cup {t}
    /\ call' = [op |-> "recompute", team |-> t, rerun |-> t \in computed]
    /\ UNCHANGED <<Team, HistoricalMatch, now, TeamRow, Match, cache, run, proc>>

\* analysis.update_from_history() on the stored row of team t
UpdateFromHistory(t) ==
    /\ t \in DOMAIN TeamAnalysis
    /\ \E last_ten_ids \in RecentWindows(HistoricalMatch, t) :
         \E counted \in RecentWindows(HistoricalMatch, t) :
            TeamAnalysis' = update_from_history(TeamAnalysis, HistoricalMatch, t,
                                                last_ten_ids, counted)
    /\ call' = [op |-> "update_from_history", team |-> t]
    /\ UNCHANGED <<Team, HistoricalMatch, now, computed, TeamRow, Match, cache, run, proc>>

\* MatchPredictor(home, away) and its predict(): the constructor creates the
\* analysis rows that are missing
PredictMatch(home, away) ==
    /\ home \in Team /\ away \in Team /\ home # away
    /\ TeamAnalysis' = GetOrCreateAnalysis(GetOrCreateAnalysis(TeamAnalysis, home), away)
    /\ call' = [op |-> "predict", home |-> home, away |-> away,
                result |-> predict(TeamAnalysis', home, away, now)]
    /\ UNCHANGED <<Team, HistoricalMatch, now, computed, TeamRow, Match, cache, run, proc>>

\* the clock advances
Tick ==
    /\ now < MaxTicks * TickMinutes
    /\ now' = now + TickMinutes
    /\ call' = [op |-> "tick"]
    /\ UNCHANGED <<Team, TeamAnalysis, HistoricalMatch, computed, TeamRow, Match, cache, run, proc>>

\* DataFetcher.fetch_matches(**args) against a provider that answers with the
\* responses of script, one per request; runs that would end after clock
\* reading limit are left out
FetchMatches(args, script, limit) ==
    LET o == fetch_matches(args, RunState(script, TeamRow, TeamAnalysis, now))
    IN  /\ o.s.script = <<>>
        /\ o.s.t <= limit
        /\ TeamRow' = o.s.rows
        /\ Team' = {r.pandascore_id : r \in o.s.rows}
        /\ TeamAnalysis' = o.s.analyses
        /\ now' = o.s.t
        /\ call' = [op |-> "fetch_matches", args |-> args, responses |-> script,
                    requests |-> o.s.requests, slept |-> o.s.slept,
                    attempts |-> o.s.attempts, returned |-> o.kind = "return",
                    raised |-> o.kind = "raise", result |-> o.value]
        /\ UNCHANGED <<HistoricalMatch, computed, Match, cache, run, proc>>

\* DataFetcher.fetch_team_history(team_id) when the provider would answer
\* response to a request
FetchTeamHistory(team_id, response) ==
    LET o == fetch_team_history(team_id, response, cache, now)
    IN  /\ cache' = o.cache
        /\ call' = [op |-> "fetch_team_history", team |-> team_id,
                    entry |-> IF CacheKey(team_id) \in DOMAIN cache
                              THEN Some(cache[CacheKey(team_id)]) ELSE None,
                    cached |-> CacheGet(cache, CacheKey(team_id), now),
                    response |-> IF o.requests = 0 THEN None ELSE Some(response),
                    requests |-> o.requests, returned |-> o.kind = "return",
                    raised |-> o.kind = "raise", result |-> o.value]
        /\ UNCHANGED <<Team, TeamAnalysis, HistoricalMatch, now, computed, TeamRow, Match, run, proc>>

\* cache.clear()
CacheClear ==
    /\ cache # <<>>
    /\ cache' = <<>>
    /\ call' = [op |-> "clear"]
    /\ UNCHANGED <<Team, TeamAnalysis, HistoricalMatch, now, computed, TeamRow, Match, run, proc>>

\* half the cache timeout passes
Elapse ==
    /\ now + Minutes(CacheTimeout) \div 2 <= MaxCacheClock
    /\ now' = now + Minutes(CacheTimeout) \div 2
    /\ call' = [op |-> "elapse"]
    /\ UNCHANGED <<Team, TeamAnalysis, HistoricalMatch, computed, TeamRow, Match, cache, run, proc>>

\* DataFetcher.save_matches_to_db(matches)
SaveMatchesToDb(matches) ==
    LET o == save_matches_to_db(Match, matches, now)
    IN  /\ Match' = o.rows
        /\ call' = [op |-> "save_matches", matches |-> matches,
                    saved_count |-> o.saved_count, raised |-> o.raised,
                    result |-> o.result]
        /\ UNCHANGED <<Team, TeamAnalysis, HistoricalMatch, now, computed, TeamRow, cache, run, proc>>

\* Command.handle up to the loop: the teams are selected; the run ends at once
\* when the selection raises or is empty
HandleStart(force, team_id) ==
    LET sel == get_teams_to_update(TeamRow, force, team_id)
    IN  /\ run.phase # "processing"
        /\ \E q \in Orders(sel.teams) :
              run' = [phase |-> IF sel.raised THEN "crashed"
                                ELSE IF sel.teams = {} THEN "done"
                                ELSE "processing",
                      selected |-> sel.teams, queue |-> q, processed |-> {},
                      failed |-> {}]
        /\ call' = [op |-> "select", force |-> force, team_id |-> team_id,
                    raised |-> sel.raised, teams |-> sel.teams]
        /\ UNCHANGED <<Team, TeamAnalysis, HistoricalMatch, now, computed, TeamRow,
                       Match, cache, proc>>

\* process_team for the next team of the run, all three steps succeeding
ProcessTeamBody(response) ==
    LET team == Head(run.queue)
        o == fetch_team_history(team, response, cache, now)
        H1 == store_historical_matches(HistoricalMatch, Team, o.value)
    IN  /\ run.phase = "processing"
        /\ cache' = o.cache
        /\ HistoricalMatch' = H1
        /\ \E W \in ProcessTeamWindows(HistoricalMatch, Team, team, o.value) :
              /\ TeamAnalysis' = update_team_analysis(TeamAnalysis, team, W)
              /\ computed' = IF W = {} THEN computed ELSE computed \cup {team}
        /\ run' = AfterTeam(run, team, FALSE)
        /\ call' = [op |-> "process", team |-> team, fault |-> "none",
                    raised |-> FALSE, stored |-> H1 \ HistoricalMatch]
        /\ UNCHANGED <<Team, now, TeamRow, Match>>

ProcessTeam(response) == ProcessTeamBody(response) /\ UNCHANGED proc

\* process_team, the time of a recompute that wrote the analytics being noted
ProcessTeamStamped(response) ==
    /\ ProcessTeamBody(response)
    /\ proc' = IF TeamMatches(HistoricalMatch', call'.team) = {} THEN proc
               ELSE [t \in DOMAIN proc \cup {call'.team} |->
                        IF t = call'.team THEN now ELSE proc[t]]

\* process_team when the cache backend fails in fetch_team_history
ProcessTeamFetchFails ==
    LET team == Head(run.queue)
    IN  /\ run.phase = "processing"
        /\ run' = AfterTeam(run, team, TRUE)
        /\ call' = [op |-> "process", team |-> team, fault |-> "fetch",
                    raised |-> TRUE]
        /\ UNCHANGED <<Team, TeamAnalysis, HistoricalMatch, now, computed, TeamRow,
                       Match, cache, proc>>

\* process_team when the database fails in store_historical_matches, k records
\* of the payload having been handled
ProcessTeamStoreFails(response, k) ==
    LET team == Head(run.queue)
        o == fetch_team_history(team, response, cache, now)
    IN  /\ run.phase = "processing"
        /\ k < Len(o.value)
        /\ cache' = o.cache
        /\ HistoricalMatch' = StoreBeforeFault(HistoricalMatch, Team, o.value, k)
        /\ run' = AfterTeam(run, team, TRUE)
        /\ call' = [op |-> "process", team |-> team, fault |-> "store",
                    raised |-> TRUE]
        /\ UNCHANGED <<Team, TeamAnalysis, now, computed, TeamRow, Match, proc>>

\* process_team when the database fails at the first query of
\* update_team_analysis
ProcessTeamRecomputeFails(response) ==
    LET team == Head(run.queue)
        o == fetch_team_history(team, response, cache, now)
    IN  /\ run.phase = "processing"
        /\ cache' = o.cache
        /\ HistoricalMatch' = store_historical_matches(HistoricalMatch, Team, o.value)
        /\ run' = AfterTeam(run, team, TRUE)
        /\ call' = [op |-> "process", team |-> team, fault |-> "recompute",
                    raised |-> TRUE]
        /\ UNCHANGED <<Team, TeamAnalysis, now, computed, TeamRow, Match, proc>>

(*************************** reconciliation specification ******************)
\* any set of teams may exist when a history payload is stored
InitStore ==
    /\ Team \in SUBSET TeamIds
    /\ TeamAnalysis = <<>>
    /\ HistoricalMatch = {}
    /\ now = 0
    /\ computed = {}
    /\ call = NoCall
    /\ TeamRow = TeamRowsFor(Team)
    /\ Match = {}
    /\ cache = <<>>
    /\ run = NoRun
    /\ proc = NoProc

NextStore == StoreHistoricalMatches(StoreRecords)

SpecStore == InitStore /\ [][NextStore]_vars

(*************************** reconciliation claims *************************)
\* the participants of a record, as the claims state them: the existing teams
\* its team_ids name
Participants(rec) == {t \in Team : \E i \in 1..Len(rec.team_ids) : rec.team_ids[i] = t}

\* a record the store has to skip: fewer than 2 participants resolve, the winner
\* resolves to no team, or the row cannot be created
Rejected(rec) ==
    \/ Cardinality(Participants(rec)) < 2
    \/ rec.winner_id = None
    \/ rec.winner_id[1] \notin Team
    \/ rec.tournament = None

\* a record the store has to persist: at least 2 participants resolve and the
\* winner is one of them
Valid(rec) ==
    /\ Cardinality(Participants(rec)) >= 2
    /\ rec.winner_id # None
    /\ rec.winner_id[1] \in Participants(rec)
    /\ rec.tournament # None

RowsOf(H, mid) == {r \in H : r.match_id = mid}

IsRowOf(r, rec) ==
    /\ r.match_id = rec.match_id
    /\ r.date = rec.date
    /\ r.tournament = rec.tournament[1]
    /\ r.winner = rec.winner_id[1]
    /\ r.teams = Participants(rec)

\* C1 (as claimed): every stored HistoricalMatch has a winner that is one of its
\* own participating teams.
C1_WinnerIsParticipant ==
    \A r \in HistoricalMatch : r.winner \in r.teams

\* C2: in one store_historical_matches call, every record that is valid and whose
\* match id is not stored when its turn comes (no row before the call, every
\* earlier record of the batch with that id skipped) is persisted, whatever bad
\* records stand before or after it in the batch.
C2_FailuresAreIndependent ==
    [][call'.op = "store" =>
        \A i \in 1..Len(call'.batch) :
            LET rec == call'.batch[i] IN
            ( /\ Valid(rec)
              /\ RowsOf(HistoricalMatch, rec.match_id) = {}
              /\ \A j \in 1..(i - 1) :
                    call'.batch[j].match_id = rec.match_id => Rejected(call'.batch[j]) )
            => \E r \in HistoricalMatch' : IsRowOf(r, rec)]_vars

\* C2 witness: a batch whose first record is skipped and whose second, valid
\* record is stored.
C2_Witness ==
    /\ call.op = "store"
    /\ Len(call.batch) = 2
    /\ Rejected(call.batch[1])
    /\ Valid(call.batch[2])
    /\ \E r \in HistoricalMatch : IsRowOf(r, call.batch[2])

\* C3: no two HistoricalMatch rows share a match id, and after a call every valid
\* record of the batch has exactly one row with its match id, also when the batch
\* names the id twice or the id was stored by an earlier call.
C3_StoreIsIdempotent ==
    /\ \A r1, r2 \in HistoricalMatch : r1.match_id = r2.match_id => r1 = r2
    /\ call.op = "store" =>
          \A i \in 1..Len(call.batch) :
              Valid(call.batch[i]) =>
                  Cardinality(RowsOf(HistoricalMatch, call.batch[i].match_id)) = 1

\* C3 witness: the same valid record twice in one batch, one row stored.
C3_Witness ==
    /\ call.op = "store"
    /\ Len(call.batch) = 2
    /\ call.batch[1] = call.batch[2]
    /\ Valid(call.batch[1])
    /\ Cardinality(RowsOf(HistoricalMatch, call.batch[1].match_id)) = 1

(*************************** recomputation specification *******************)
\* an analysis row with values set before (by an earlier run or in the admin site)
PriorAnalysis ==
    [last_ten_winrate |-> Rat(7, 10),
     h2h_advantage |-> [k \in {ToString(2)} |-> Rat(3, 5)],
     last_match_data |-> Some(0)]

\* the tables of n matches between teams 1 and 2: match i was played on day
\* dates[i] and won by winners[i]
StoredMatches(n, winners, dates) ==
    {[id |-> i, match_id |-> MatchIdStr(i), date |-> dates[i] * TickMinutes,
      tournament |-> "Cup", winner |-> winners[i], teams |-> {1, 2}] : i \in 1..n}

\* all dates distinct, or every date shared by two matches
DateSchemes(n) == {[i \in 1..n |-> i], [i \in 1..n |-> (i + 1) \div 2]}

\* teams 1 and 2 with up to MaxStored stored matches, team 3 without any;
\* each analysis row missing, fresh or holding earlier values
InitRecompute ==
    /\ Team = {1, 2, 3}
    /\ \E n \in 0..MaxStored : \E winners \in [1..n -> {1, 2}] :
           \E dates \in DateSchemes(n) :
               HistoricalMatch = StoredMatches(n, winners, dates)
    /\ \E a \in {DefaultAnalysis, PriorAnalysis} :
           TeamAnalysis \in {<<>>, [t \in {1, 3} |-> a]}
    /\ now = 0
    /\ computed = {}
    /\ call = NoCall
    /\ TeamRow = TeamRowsFor(Team)
    /\ Match = {}
    /\ cache = <<>>
    /\ run = NoRun
    /\ proc = NoProc

\* team 1 stands for both sides of the stored matches (the winners range over
\* both), team 3 for a team without history
NextRecompute == \E t \in {1, 3} : UpdateTeamAnalysis(t)

SpecRecompute == InitRecompute /\ [][NextRecompute]_vars

(*************************** recomputation claims **************************)
\* the selections of "the at most 10 most recent matches by date" of team t: as
\* many rows as the window holds, none older than a row left out
MostRecentTen(t) ==
    LET M == {r \in HistoricalMatch : t \in r.teams}
    IN  {W \in SUBSET M :
            /\ Cardinality(W) = (IF Cardinality(M) < 10 THEN Cardinality(M) ELSE 10)
            /\ \A r \in W : \A q \in M \ W : q.date <= r.date}

\* C4: after recompute of a team with at least one stored match, its win rate is
\* wins / window size over the at most 10 most recent matches by date, lies in
\* [0,1], and its last-match timestamp is the date of the most recent match.
C4_WinRateOverLastTen ==
    (call.op = "recompute" /\ \E r \in HistoricalMatch : call.team \in r.teams) =>
        LET a == TeamAnalysis[call.team]
            M == {r \in HistoricalMatch : call.team \in r.teams}
        IN  /\ \E W \in MostRecentTen(call.team) :
                  LET wins == Cardinality({r \in W : r.winner = call.team})
                  IN  /\ a.last_ten_winrate[1] * Cardinality(W)
                           = wins * a.last_ten_winrate[2]
                      /\ a.last_ten_winrate[2] > 0
            /\ 0 <= a.last_ten_winrate[1]
            /\ a.last_ten_winrate[1] <= a.last_ten_winrate[2]
            /\ \E r \in M : /\ a.last_match_data = Some(r.date)
                             /\ \A q \in M : q.date <= r.date

\* C4 witness: 11 stored matches of which only the oldest was won: the win rate
\* over the 10 most recent is 0.
C4_Witness ==
    /\ call.op = "recompute"
    /\ call.team = 1
    /\ Cardinality(HistoricalMatch) > 10
    /\ \E r \in HistoricalMatch :
          /\ r.winner = 1
          /\ \A q \in HistoricalMatch \ {r} : q.winner = 2 /\ q.date > r.date
    /\ TeamAnalysis[1].last_ten_winrate = Zero

\* C5: recompute of a team without stored matches leaves the win rate, the
\* head-to-head mapping and the last-match timestamp of its analysis unchanged.
C5_EmptyHistoryIsNoOp ==
    [][( /\ call'.op = "recompute"
         /\ call'.team \in DOMAIN TeamAnalysis
         /\ ~ \E r \in HistoricalMatch : call'.team \in r.teams )
       => TeamAnalysis'[call'.team] = TeamAnalysis[call'.team]]_vars

\* C5 witness: a recompute of team 3, which has no stored match and whose
\* analysis holds earlier values.
C5_Witness ==
    /\ call.op = "recompute"
    /\ call.team = 3
    /\ 3 \in DOMAIN TeamAnalysis
    /\ TeamAnalysis[3] = PriorAnalysis
    /\ ~ \E r \in HistoricalMatch : 3 \in r.teams

(*************************** prediction specification **********************)
\* win rates a recompute can have written: k wins in a window of 10
WinrateSamples == {Rat(k, 10) : k \in 0..10}

\* head-to-head mappings of the home team 1: empty, an entry for another
\* opponent only, or an entry for team 2
H2hSamples ==
    {<<>>, [k \in {ToString(3)} |-> Rat(3, 5)]}
    \cup {[k \in {ToString(2)} |-> v] :
             v \in {Zero, Rat(2, 5), Half, Rat(3, 5), One}}

\* last-match timestamps 0, 24, 48, 72 and 96 hours before t, or none
LastMatchSamples(t) == {None} \cup {Some(t - k * 24 * MinutesPerHour) : k \in 0..4}

\* teams 1 and 2 with every combination of the sampled factors, read 96 hours
\* after time 0
InitFactors ==
    /\ now = 96 * MinutesPerHour
    /\ \E w1 \in WinrateSamples, w2 \in WinrateSamples, h \in H2hSamples,
          l1 \in LastMatchSamples(now), l2 \in LastMatchSamples(now) :
          TeamAnalysis =
              [t \in {1, 2} |->
                  IF t = 1
                  THEN [last_ten_winrate |-> w1, h2h_advantage |-> h,
                        last_match_data |-> l1]
                  ELSE [last_ten_winrate |-> w2,
                        h2h_advantage |-> [k \in {ToString(1)} |-> Rat(2, 5)],
                        last_match_data |-> l2]]

\* team 1 played at time 0, team 2 never; the clock reads any minute up to MaxElapsed
InitFatigue ==
    /\ now \in 0..MaxElapsed
    /\ TeamAnalysis =
          [t \in {1, 2} |->
              IF t = 1 THEN [DefaultAnalysis EXCEPT !.last_match_data = Some(0)]
              ELSE DefaultAnalysis]

InitPredict ==
    /\ Team = {1, 2}
    /\ HistoricalMatch = {}
    /\ computed = {}
    /\ call = NoCall
    /\ TeamRow = TeamRowsFor(Team)
    /\ Match = {}
    /\ cache = <<>>
    /\ run = NoRun
    /\ proc = NoProc
    /\ (InitFactors \/ InitFatigue)

NextPredict == \E home \in Team, away \in Team : PredictMatch(home, away)

SpecPredict == InitPredict /\ [][NextPredict]_vars

(*************************** prediction claims *****************************)
\* 10 * homeScore and 10 * awayScore of the claims, from the reported factors
HomeScoreTimes10(f) ==
    RAdd(RAdd(RMul(Rat(6, 1), f.winrate.home), RMul(Rat(3, 1), f.h2h)), f.fatigue.home)

AwayScoreTimes10(f) ==
    RAdd(RAdd(RMul(Rat(6, 1), f.winrate.away), RMul(Rat(3, 1), RSub(One, f.h2h))),
         f.fatigue.away)

\* C6: predict declares the home team the winner exactly when homeScore is
\* strictly greater than awayScore; otherwise, the total being non-zero, the away
\* team is declared, and on a tie the reported confidence is exactly 0.5.
C6_HomeWinsIffStrictlyGreater ==
    call.op = "predict" =>
        LET hs == HomeScoreTimes10(call.result.factors)
            as == AwayScoreTimes10(call.result.factors)
        IN  /\ (call.result.winner = Some(call.home)) <=> RLess(as, hs)
            /\ (RAdd(hs, as) # Zero /\ ~ RLess(as, hs))
                  => call.result.winner = Some(call.away)
            /\ hs = as => call.result.confidence = Half

\* C6 witness: a tie of two different factor sets, given to the away team.
C6_Witness ==
    /\ call.op = "predict"
    /\ HomeScoreTimes10(call.result.factors) = AwayScoreTimes10(call.result.factors)
    /\ call.result.factors.winrate.home # call.result.factors.winrate.away
    /\ call.result.winner = Some(call.away)
    /\ call.result.confidence = Half

ScenarioB ==
    [winrate |-> [home |-> Rat(7, 10), away |-> Rat(5, 10)],
     h2h |-> Rat(6, 10),
     fatigue |-> [home |-> One, away |-> Zero]]

\* C7: the reported confidence is winnerScore / (homeScore + awayScore); with the
\* factors of scenario B homeScore is 0.70, awayScore 0.42, the winner is the
\* home team and the confidence 0.625.
C7_ConfidenceOfWinner ==
    call.op = "predict" =>
        LET hs == HomeScoreTimes10(call.result.factors)
            as == AwayScoreTimes10(call.result.factors)
            c == call.result.confidence
        IN  /\ call.result.winner = Some(call.home) =>
                  c[1] * (hs[1] * as[2] + as[1] * hs[2]) = c[2] * hs[1] * as[2]
            /\ (call.result.winner = Some(call.away)) =>
                  c[1] * (hs[1] * as[2] + as[1] * hs[2]) = c[2] * as[1] * hs[2]
            /\ call.result.factors = ScenarioB =>
                  /\ hs = Rat(70, 10)
                  /\ as = Rat(42, 10)
                  /\ call.result.winner = Some(call.home)
                  /\ c = Rat(625, 1000)

\* C7 witness: the prediction of scenario B.
C7_Witness ==
    /\ call.op = "predict"
    /\ call.result.factors = ScenarioB
    /\ call.result.confidence = Rat(5, 8)

\* the step function of the claim, of the minutes elapsed
FatigueStep(minutes) ==
    IF minutes < 24 * 60 THEN Zero
    ELSE IF minutes < 48 * 60 THEN Rat(25, 100)
    ELSE IF minutes < 72 * 60 THEN Rat(50, 100)
    ELSE IF minutes < 96 * 60 THEN Rat(75, 100)
    ELSE One

C10_MissingDataDefaults ==
    call.op = "predict" =>
        LET h == TeamAnalysis[call.home].h2h_advantage
            key == ToString(call.away)
        IN  /\ key \notin DOMAIN h => call.result.factors.h2h = Half
            /\ key \in DOMAIN h => call.result.factors.h2h = h[key]
            /\ TeamAnalysis[call.home].last_match_data = None
                  => call.result.factors.fatigue.home = One
            /\ TeamAnalysis[call.away].last_match_data = None
                  => call.result.factors.fatigue.away = One

\* C10 witness: a stored head-to-head entry of 0.0 reported as 0.0.
C10_Witness ==
    /\ call.op = "predict"
    /\ ToString(call.away) \in DOMAIN TeamAnalysis[call.home].h2h_advantage
    /\ TeamAnalysis[call.home].h2h_advantage[ToString(call.away)] = Zero
    /\ call.result.factors.h2h = Zero

(*************************** pipeline specification ************************)
\* history payloads of the pipeline: matches between teams 1 and 2
PipelineRecords ==
    Records(1..MaxMatchIds, {TickMinutes}, {Some("Cup")}, {<<1, 2>>}, {Some(1), Some(2)})

\* team objects of the pipeline's payloads
PipelineTeamData ==
    TeamData({Some(i) : i \in 1..MaxPipelineTeams}, {Some("A")}, {Some("a")}, {None})

\* the live endpoint of the pipeline: a timeout, or the match of teams 1 and 2
PipelineLiveResponses ==
    {Response(0, None, "invalid", <<>>),
     Response(200, None, "list",
        <<RawMatch(1, <<[id |-> Some(1), name |-> Some("A"), slug |-> Some("a"),
                         image_url |-> None],
                        [id |-> Some(2), name |-> Some("A"), slug |-> Some("a"),
                         image_url |-> None]>>,
                   Some("1970-01-02T00:00:00Z"),
                   <<[status |-> "not_started", map |-> Some("Mirage")]>>)>>)}

\* the record parsed from that match
PipelineLiveRecords ==
    {ParsedMatch(1, Some(1), Some(2), Some("1970-01-02T00:00:00Z"), Some("Mirage"))}

\* the history endpoint of the pipeline: a server error, or one finished match
PipelineHistoryResponses ==
    {Response(500, None, "invalid", <<>>),
     Response(200, None, "list",
        <<RawHistory(1, Some("1970-01-02T00:00:00Z"), Some(Some("Cup")), Some(1),
                     <<1, 2>>)>>)}

\* an empty database
Init ==
    /\ Team = {}
    /\ TeamAnalysis = <<>>
    /\ HistoricalMatch = {}
    /\ now = 0
    /\ computed = {}
    /\ call = NoCall
    /\ TeamRow = TeamRowsFor(Team)
    /\ Match = {}
    /\ cache = <<>>
    /\ run = NoRun
    /\ proc = NoProc

Next ==
    \/ \E api_data \in PipelineTeamData : UpsertTeam(api_data)
    \/ StoreHistoricalMatches(PipelineRecords)
    \/ \E t \in Team : UpdateTeamAnalysis(t)
    \/ \E home \in Team, away \in Team : PredictMatch(home, away)
    \/ Tick

Spec == Init /\ [][Next]_vars

\* the history payload of the ingestion run: match 1 of teams 1 and 2
IngestRecords ==
    Records({1}, {TickMinutes}, {Some("Cup")}, {<<1, 2>>}, {Some(1)})

InitIngest == Init

\* every operation of the pipeline, at one clock reading: team upserts, the
\* live fetch and save, the history fetch and store, recompute and predict
NextIngest ==
    \/ \E api_data \in PipelineTeamData : UpsertTeam(api_data)
    \/ \E r \in PipelineLiveResponses : FetchMatches(DefaultArgs, <<r>>, now)
    \/ \E matches \in Batches(PipelineLiveRecords, 1) : SaveMatchesToDb(matches)
    \/ \E t \in Team, r \in PipelineHistoryResponses : FetchTeamHistory(t, r)
    \/ StoreHistoricalMatches(IngestRecords)
    \/ \E t \in Team : UpdateTeamAnalysis(t)
    \/ \E home \in Team, away \in Team : PredictMatch(home, away)

SpecIngest == InitIngest /\ [][NextIngest]_vars

(*************************** pipeline claims *******************************)
\* C9 (as claimed): for a team whose analytics were never computed, predict
\* reports the neutral win-rate factor 0.5.
C9_UncomputedWinrateIsNeutral ==
    call.op = "predict" =>
        /\ call.home \notin computed => call.result.factors.winrate.home = Half
        /\ call.away \notin computed => call.result.factors.winrate.away = Half


(*************************** the Team table ********************************)
\* team objects a provider payload can carry: with and without id, name,
\* slug and image, and with a blank image
TeamPayloads ==
    TeamData({None, Some(1), Some(2)}, {None, Some("A")}, {None, Some("a")},
             {None, Some(""), Some("u")})

\* an empty database
InitTeams ==
    /\ Team = {}
    /\ TeamAnalysis = <<>>
    /\ HistoricalMatch = {}
    /\ now = 0
    /\ computed = {}
    /\ call = NoCall
    /\ TeamRow = {}
    /\ Match = {}
    /\ cache = <<>>
    /\ run = NoRun
    /\ proc = NoProc

NextTeams ==
    \/ \E api_data \in TeamPayloads : UpsertTeam(api_data)
    \/ Tick

SpecTeams == InitTeams /\ [][NextTeams]_vars

\* the name, slug and image a payload asks for
PayloadFields(api_data) ==
    [name |-> IF api_data.name = None THEN "Unknown Team" ELSE api_data.name[1],
     slug |-> IF api_data.slug = None THEN "" ELSE api_data.slug[1],
     image_url |-> IF api_data.image_url \in {None, Some("")}
                   THEN None ELSE api_data.image_url]

RowFields(r) == [name |-> r.name, slug |-> r.slug, image_url |-> r.image_url]

TeamRowOf(rows, pid) == CHOOSE r \in rows : r.pandascore_id = pid

\* C17: after any sequence of pipeline operations there is at most one Team per
\* external identifier, and no Team that once existed has been deleted.
C17_OneTeamPerIdNeverDeleted ==
    /\ [](\A r1 \in TeamRow, r2 \in TeamRow :
            r1.pandascore_id = r2.pandascore_id => r1 = r2)
    /\ [][\A r \in TeamRow : \E r2 \in TeamRow' :
            r2.id = r.id /\ r2.pandascore_id = r.pandascore_id]_vars

\* a second payload for a known team has been applied while another team exists
C17_Witness ==
    /\ call.op = "upsert"
    /\ call.team # None
    /\ ~call.created
    /\ Cardinality(TeamRow) >= 2

C19_AnalysisCreatedWithTeam ==
    \A t \in Team : t \in DOMAIN TeamAnalysis


(*************************** rate limiting *********************************)
\* k rate-limited responses carrying the reset header hdr
Pauses(k, hdr) == [i \in 1..k |-> Response(429, hdr, "object", <<>>)]

\* responses that end a call: no response, client and server errors, a 429
\* whose reset header is not a number, a JSON object, a body that is not
\* JSON, an empty list and a list of one match without opponents
Terminals ==
    {Response(0, None, "invalid", <<>>),
     Response(404, None, "object", <<>>),
     Response(500, None, "invalid", <<>>),
     Response(429, Some("soon"), "object", <<>>),
     Response(200, None, "object", <<>>),
     Response(200, None, "invalid", <<>>),
     Response(200, None, "list", <<>>),
     Response(200, None, "list", <<RawMatch(1, <<>>, Some("1970-01-02T00:00:00Z"), <<>>)>>)}

\* what the provider answers to the successive requests of one call: up to n
\* rate-limited responses, then a final response or nothing more
Scripts(n) ==
    {Pauses(k, hdr) \o tail :
        k \in 0..n, hdr \in {None, Some("120")},
        tail \in {<<>>} \cup {<<r>> : r \in Terminals}} \ {<<>>}

\* the default call and a call for another discipline, filter and page size
CallArgs == {DefaultArgs, [game |-> "dota2", status |-> "running", page_size |-> 2]}

InitRateLimit == InitTeams

NextRateLimit ==
    \E args \in CallArgs, script \in Scripts(MaxPauses) :
        FetchMatches(args, script, MaxPauseClock)

SpecRateLimit == InitRateLimit /\ [][NextRateLimit]_vars

\* C13 (as claimed): every request of one fetch_matches call, the re-issues
\* after a rate-limit pause included, carries the arguments of the call.
C13_ReissueIsIdentical ==
    call.op = "fetch_matches" =>
        \A i \in 1..Len(call.requests) : call.requests[i] = call.args

\* C14 (as claimed): the rate-limit pauses of one call are capped: against a
\* provider that keeps answering 429 the call stops pausing below the longest
\* run of 429 responses drawn (a run longer than the ceiling of 5 the
\* specification suggests).
C14_RateLimitRetriesCapped ==
    call.op = "fetch_matches" => Len(call.slept) < MaxPauses


(*************************** the API client ********************************)
\* team objects of the live payloads
TeamA == [id |-> Some(1), name |-> Some("A"), slug |-> Some("a"), image_url |-> None]

TeamB == [id |-> Some(2), name |-> Some("B"), slug |-> Some("b"), image_url |-> Some("u")]

\* live matches: one complete with a map to come, one with a single opponent
\* and no start time
LiveComplete ==
    RawMatch(1, <<TeamA, TeamB>>, Some("1970-01-02T00:00:00Z"),
             <<[status |-> "finished", map |-> Some("Nuke")],
               [status |-> "not_started", map |-> Some("Mirage")]>>)

LiveIncomplete == RawMatch(2, <<TeamA>>, None, <<>>)

\* the single responses a fetch_matches call can meet
LiveResponses ==
    Terminals
    \cup {Response(200, None, "list", <<LiveComplete>>),
          Response(200, None, "list", <<LiveIncomplete, LiveComplete>>)}

\* history matches: one complete, one without begin_at, one whose begin_at is
\* not a date, one without league
HistoryComplete == RawHistory(1, Some("1970-01-02T00:00:00Z"), Some(Some("Cup")), Some(1), <<1, 2>>)

HistoryUndated == RawHistory(2, None, Some(Some("Cup")), Some(1), <<1, 2>>)

HistoryBadDate == RawHistory(2, Some("yesterday"), Some(Some("Cup")), None, <<1, 2>>)

HistoryNoLeague == RawHistory(2, Some("1970-01-03T00:00:00Z"), None, None, <<1, 2>>)

HistoryNullLeague == RawHistory(3, Some("1970-01-03T00:00:00Z"), Some(None), Some(2), <<2, 1>>)

\* the responses a fetch_team_history request can meet
HistoryResponses ==
    {Response(0, None, "invalid", <<>>),
     Response(404, None, "object", <<>>),
     Response(500, None, "invalid", <<>>),
     Response(429, None, "object", <<>>),
     Response(200, None, "object", <<>>),
     Response(200, None, "invalid", <<>>),
     Response(200, None, "list", <<>>),
     Response(200, None, "list", <<HistoryComplete>>),
     Response(200, None, "list", <<HistoryUndated, HistoryComplete>>),
     Response(200, None, "list", <<HistoryBadDate>>),
     Response(200, None, "list", <<HistoryComplete, HistoryNoLeague>>),
     Response(200, None, "list", <<HistoryNoLeague, HistoryBadDate, HistoryComplete>>),
     Response(200, None, "list", <<HistoryNullLeague, HistoryComplete>>)}

HistoryTeams == 1..MaxPipelineTeams

InitApi == InitTeams

NextApi ==
    \/ \E args \in CallArgs, r \in LiveResponses : FetchMatches(args, <<r>>, now)
    \/ \E t \in HistoryTeams, r \in HistoryResponses : FetchTeamHistory(t, r)

SpecApi == InitApi /\ [][NextApi]_vars

\* a timeout or a 5xx
Transient(r) == r.status = 0 \/ r.status >= 500

\* the request failed: no response, an error status, or a body that is not a
\* JSON list
Failed(r) == r.status = 0 \/ r.status >= 400 \/ r.json # "list"

\* C11 (as claimed): a call that met a transient failure returns its empty
\* result only after 3 attempts.
C11_TransientFailureIsRetried ==
    /\ (call.op = "fetch_matches" /\ call.returned
            /\ Transient(call.responses[Len(call.responses)]))
          => Len(call.requests) - Len(call.slept) = StopAfterAttempt
    /\ (call.op = "fetch_team_history" /\ call.response # None
            /\ Transient(call.response[1]))
          => call.requests = StopAfterAttempt

\* C12: fetch_matches and fetch_team_history never raise: whatever the provider
\* answers the call returns a sequence, empty when the request failed.
C12_NeverRaises ==
    /\ call.op = "fetch_matches" =>
          /\ call.returned /\ ~call.raised
          /\ Failed(call.responses[Len(call.responses)]) => call.result = <<>>
    /\ call.op = "fetch_team_history" =>
          /\ call.returned /\ ~call.raised
          /\ (call.response # None /\ Failed(call.response[1])) => call.result = <<>>

\* a 429 whose reset header is not a number ended in an empty result
C12_Witness ==
    /\ call.op = "fetch_matches"
    /\ call.responses[Len(call.responses)].status = 429
    /\ call.responses[Len(call.responses)].reset = Some("soon")
    /\ call.returned
    /\ call.result = <<>>

(*************************** the history cache *****************************)
InitCache == InitTeams

NextCache ==
    \/ \E t \in HistoryTeams, r \in HistoryResponses : FetchTeamHistory(t, r)
    \/ Elapse
    \/ CacheClear

SpecCache == InitCache /\ [][NextCache]_vars

\* C15 (as claimed): while an entry for team t is in the cache and has not
\* expired, fetch_team_history(t) returns the cached value without a request,
\* whatever the value.
C15_CachedValueIsServed ==
    (call.op = "fetch_team_history" /\ call.cached # None) =>
        /\ call.requests = 0
        /\ call.result = call.cached[1]

\* C16: an entry set at time s is retrievable while now < s + 21600 seconds and
\* absent from then on; a fetch_team_history call that finds no entry (expired,
\* cleared or never set) issues a request, and a successful one stores its
\* value for 21600 seconds.
C16_EntryLivesForItsTtl ==
    [][call'.op = "fetch_team_history" =>
          LET key == CacheKey(call'.team)
              fresh == key \in DOMAIN cache /\ now < cache[key].expires
          IN  /\ call'.cached = (IF fresh THEN Some(cache[key].value) ELSE None)
              /\ ~fresh => call'.requests = 1
              /\ (call'.requests = 1 /\ ~Failed(call'.response[1])) =>
                    /\ key \in DOMAIN cache'
                    /\ cache'[key] = [value |-> call'.result,
                                      expires |-> now + Minutes(CacheTimeout)]
              /\ (call'.requests = 1 /\ call'.response[1].status # 200) =>
                    (key \in DOMAIN cache' => fresh /\ cache'[key] = cache[key])]_vars

\* a call found the entry of its team expired and fetched again
C16_Witness ==
    /\ call.op = "fetch_team_history"
    /\ call.entry # None
    /\ call.entry[1].value # <<>>
    /\ call.cached = None
    /\ call.requests = 1
    /\ call.result # <<>>
    /\ CacheKey(call.team) \in DOMAIN cache
    /\ cache[CacheKey(call.team)].expires = now + Minutes(CacheTimeout)


(*************************** live matches **********************************)
\* parsed records: both match ids, with and without team1, start time and
\* next map
LiveRecords ==
    {ParsedMatch(id, team1, Some(2), start_time, next_map) :
        id \in 1..MaxMatchIds, team1 \in {None, Some(1)},
        start_time \in {None, Some("1970-01-02T00:00:00Z")},
        next_map \in {None, Some("Mirage")}}

\* the opponents exist, no match is stored
InitLive ==
    /\ Team = 1..MaxPipelineTeams
    /\ TeamAnalysis = <<>>
    /\ HistoricalMatch = {}
    /\ now = 0
    /\ computed = {}
    /\ call = NoCall
    /\ TeamRow = TeamRowsFor(Team)
    /\ Match = {}
    /\ cache = <<>>
    /\ run = NoRun
    /\ proc = NoProc

NextLive == \E matches \in Batches(LiveRecords, MaxBatch) : SaveMatchesToDb(matches)

SpecLive == InitLive /\ [][NextLive]_vars

\* C20 (as claimed): after save_matches_to_db, every record of the batch that
\* has team1, team2 and a start time has exactly one Match row with its
\* external id, and the row's fields are the record's, whatever the record's
\* position.
C20_EveryCompleteRecordIsUpserted ==
    call.op = "save_matches" =>
        \A i \in DOMAIN call.matches :
            LET rec == call.matches[i]
                rows == {r \in Match : r.pandascore_id = rec.pandascore_id}
            IN  (HasRequiredFields(rec)
                    /\ \A j \in DOMAIN call.matches :
                          call.matches[j].pandascore_id = rec.pandascore_id => j <= i) =>
                  /\ Cardinality(rows) = 1
                  /\ \A r \in rows :
                        /\ r.fields.team1 = rec.team1
                        /\ r.fields.team2 = rec.team2
                        /\ Some(r.fields.start_time) = ParseDatetime(rec.start_time[1])
                        /\ r.fields.name = rec.name
                        /\ r.fields.tournament = rec.tournament
                        /\ r.fields.status = rec.status
                        /\ r.fields.game = rec.game


\* C21 (as claimed): save_matches_to_db neither creates nor updates a Match row
\* for a record that lacks team1, team2 or start time, wherever the record
\* stands in the batch (the rows of its external id stay as they were unless a
\* complete record of the batch carries the same id).
C21_IncompleteRecordIsSkipped ==
    [][call'.op = "save_matches" =>
          \A i \in DOMAIN call'.matches :
              LET rec == call'.matches[i]
              IN  (~HasRequiredFields(rec)
                     /\ \A j \in DOMAIN call'.matches :
                           call'.matches[j].pandascore_id = rec.pandascore_id
                              => ~HasRequiredFields(call'.matches[j])) =>
                    {r \in Match' : r.pandascore_id = rec.pandascore_id}
                      = {r \in Match : r.pandascore_id = rec.pandascore_id}]_vars

\* C22 (as claimed): save_matches_to_db never raises and returns True exactly
\* when a record of the batch was persisted; for an empty batch it returns
\* False.
C22_SaveNeverRaises ==
    call.op = "save_matches" =>
        /\ ~call.raised
        /\ call.result = (call.saved_count > 0)
        /\ call.matches = <<>> => ~call.result


(*************************** the command run *******************************)
\* the history endpoint during a run: a server error, one finished match, two
\* finished matches
RunHistoryResponses ==
    {Response(500, None, "invalid", <<>>),
     Response(200, None, "list", <<HistoryComplete>>),
     Response(200, None, "list",
        <<HistoryComplete,
          RawHistory(2, Some("1970-01-03T00:00:00Z"), Some(Some("Cup")), Some(2),
                     <<1, 2>>)>>)}

\* the --team-id option: absent, a known team, an unknown one
TeamIdOptions == {None, Some(1), Some(MaxTeams + 1)}

\* the teams exist, nothing else is stored
InitRun ==
    /\ Team = 1..MaxPipelineTeams
    /\ TeamAnalysis = <<>>
    /\ HistoricalMatch = {}
    /\ now = 0
    /\ computed = {}
    /\ call = NoCall
    /\ TeamRow = TeamRowsFor(Team)
    /\ Match = {}
    /\ cache = <<>>
    /\ run = NoRun
    /\ proc = NoProc

\* the steps of the loop of handle
ProcessStep ==
    \/ \E r \in RunHistoryResponses : ProcessTeam(r)
    \/ ProcessTeamFetchFails
    \/ \E r \in RunHistoryResponses, k \in 0..MaxBatch : ProcessTeamStoreFails(r, k)
    \/ \E r \in RunHistoryResponses : ProcessTeamRecomputeFails(r)

NextRun ==
    \/ \E force \in BOOLEAN, team_id \in TeamIdOptions : HandleStart(force, team_id)
    \/ ProcessStep

SpecRun == InitRun /\ [][NextRun]_vars

\* the loop of handle goes on while teams are left
SpecRunLive == SpecRun /\ WF_vars(ProcessStep)

\* C23 (as claimed): get_teams_to_update returns; with the force flag or a
\* targeted team id it returns all teams (only the targeted one when an id is
\* given) without a staleness filter, and otherwise its result holds every team
\* that has no analytics record.
C23_TeamSelection ==
    call.op = "select" =>
        LET base == IF call.team_id = None THEN Team ELSE Team \cap {call.team_id[1]}
        IN  /\ ~call.raised
            /\ (call.force \/ call.team_id # None) => call.teams = base
            /\ (~call.force /\ call.team_id = None) =>
                  {t \in Team : t \notin DOMAIN TeamAnalysis} \subseteq call.teams


\* C24: when process_team raises for a team of the run (in the fetch, the store
\* or the recompute step) the loop goes on with the next team; a run that
\* started processing reaches its end having attempted every selected team, and
\* no stored HistoricalMatch or TeamAnalysis row is removed on the way.
C24_FailureIsolation ==
    /\ [][(run.phase = "processing" /\ run' # run) =>
            /\ run'.phase \in {"processing", "done"}
            /\ run'.queue = Tail(run.queue)
            /\ run'.processed \cup run'.failed
                  = run.processed \cup run.failed \cup {Head(run.queue)}
            /\ HistoricalMatch \subseteq HistoricalMatch'
            /\ DOMAIN TeamAnalysis \subseteq DOMAIN TeamAnalysis']_vars
    /\ [](run.phase = "done" => run.processed \cup run.failed = run.selected)
    /\ (run.phase = "processing") ~> (run.phase = "done")

\* a run ended with a team processed after another team of the run failed,
\* matches being stored
C24_Witness ==
    /\ run.phase = "done"
    /\ run.failed # {}
    /\ call.op = "process"
    /\ ~call.raised
    /\ HistoricalMatch # {}


\* C25 (as claimed): fetch_matches writes nothing: a call leaves the Team,
\* TeamAnalysis, Match and HistoricalMatch tables and the cache as they were.
C25_FetchMatchesIsReadOnly ==
    [][call'.op = "fetch_matches" =>
          /\ TeamRow' = TeamRow
          /\ TeamAnalysis' = TeamAnalysis
          /\ Match' = Match
          /\ HistoricalMatch' = HistoricalMatch
          /\ cache' = cache]_vars

(*************************** recompute and its inputs **********************)
\* winners of n matches: team 2 wins all but some of the two oldest
OldestWinners(n) ==
    {[i \in 1..n |-> IF i \in S THEN 1 ELSE 2] : S \in SUBSET ({1, 2} \cap 1..n)}

\* teams 1 and 2 with one stored match or one more than the window holds, no
\* analysis computed, an empty cache
InitPure ==
    /\ Team = {1, 2}
    /\ \E n \in {1, WindowSize + 1} : \E winners \in OldestWinners(n) :
           \E dates \in DateSchemes(n) :
               HistoricalMatch = StoredMatches(n, winners, dates)
    /\ TeamAnalysis = <<>>
    /\ now = 0
    /\ computed = {}
    /\ call = NoCall
    /\ TeamRow = TeamRowsFor(Team)
    /\ Match = {}
    /\ cache = <<>>
    /\ run = NoRun
    /\ proc = NoProc

\* recompute runs between which the cache is filled, served and cleared and the
\* provider answers or fails; the stored matches stay as they are
NextPure ==
    \/ \E t \in Team : UpdateTeamAnalysis(t)
    \/ \E t \in Team, r \in PipelineHistoryResponses : FetchTeamHistory(t, r)
    \/ CacheClear

SpecPure == InitPure /\ [][NextPure]_vars

\* C26 (as claimed): a recompute run over the stored matches an earlier run saw
\* writes the win rate and last-match timestamp the earlier run wrote.
C26_RecomputeIsPure ==
    [][(call'.op = "recompute" /\ call'.rerun) =>
          /\ TeamAnalysis'[call'.team].last_ten_winrate
                = TeamAnalysis[call'.team].last_ten_winrate
          /\ TeamAnalysis'[call'.team].last_match_data
                = TeamAnalysis[call'.team].last_match_data]_vars

\* C26 (amended): when the dates of the stored matches determine which ten are
\* the most recent, a recompute run over the stored matches an earlier run saw
\* writes the win rate and last-match timestamp the earlier run wrote, whatever
\* the cache holds and the provider answered in between; the timestamp is the
\* same in every case.
C26_RecomputeIsPureOnDatedWindow ==
    [][(call'.op = "recompute" /\ call'.rerun) =>
          /\ Cardinality(MostRecentTen(call'.team)) = 1 =>
                TeamAnalysis'[call'.team].last_ten_winrate
                   = TeamAnalysis[call'.team].last_ten_winrate
          /\ TeamAnalysis'[call'.team].last_match_data
                = TeamAnalysis[call'.team].last_match_data]_vars

\* a second recompute over more matches than the window holds, the cache
\* having been filled since the database was set up
C26_Witness ==
    /\ call.op = "recompute"
    /\ call.rerun
    /\ cache # <<>>
    /\ Cardinality(HistoricalMatch) > WindowSize
    /\ Cardinality(MostRecentTen(call.team)) = 1

(*************************** who writes TeamAnalysis ***********************)
\* C27: an existing TeamAnalysis is mutated only by recompute: predict (its
\* constructor included), fetch_matches, save_matches_to_db, fetch_team_history,
\* store_historical_matches and the team upsert leave the win rate, the
\* head-to-head mapping and the last-match timestamp of every existing
\* TeamAnalysis unchanged.
C27_OnlyRecomputeWritesAnalysis ==
    [][call'.op # "recompute" =>
          \A t \in DOMAIN TeamAnalysis :
              /\ t \in DOMAIN TeamAnalysis'
              /\ TeamAnalysis'[t] = TeamAnalysis[t]]_vars

\* a prediction whose constructor found the computed analysis of the home team
\* and created the missing one of the away team
C27_Witness ==
    /\ call.op = "predict"
    /\ call.home \in computed
    /\ TeamAnalysis[call.home].last_ten_winrate = One
    /\ TeamAnalysis[call.home].last_match_data # None
    /\ call.away \notin computed
    /\ TeamAnalysis[call.away] = DefaultAnalysis

(*************************** normalization of a history payload ************)
\* the match has a start time and it parses
UsableStart(api_data) ==
    api_data.begin_at # None /\ ParseDatetime(api_data.begin_at[1]) # None

\* the parser can read the match: a usable start time and no null league
Readable(api_data) == UsableStart(api_data) /\ api_data.league # Some(None)

\* result holds, in order, the external id as a string, the opponent ids and
\* the winner id of the raw records kept
NormalizedFrom(result, kept) ==
    /\ Len(result) = Len(kept)
    /\ \A i \in 1..Len(result) :
           /\ i <= Len(kept)
           /\ result[i].match_id = ToString(kept[i].id)
           /\ result[i].team_ids = kept[i].opponents
           /\ result[i].winner_id = kept[i].winner
           /\ Some(result[i].date) = ParseDatetime(kept[i].begin_at[1])

\* a call that read a list of matches from the provider
ReadHistoryList ==
    /\ call.op = "fetch_team_history"
    /\ call.response # None
    /\ call.response[1].status = 200
    /\ call.response[1].json = "list"

\* C28 (as claimed): normalization drops exactly the records with a missing or
\* unparsable start time, without an error; every other record of the response
\* is normalized (external id as string, ordered opponent ids, optional winner
\* id) and returned in the original order.
C28_DropsExactlyUndatedRecords ==
    ReadHistoryList =>
        /\ call.returned
        /\ NormalizedFrom(call.result, SelectSeq(call.response[1].items, UsableStart))

\* C28 (amended): normalization drops, without an error, the records with a
\* missing or unparsable start time and the records whose league is null; every
\* other record of the response is normalized (external id as string, ordered
\* opponent ids, optional winner id) and returned in the original order.
C28_DropsExactlyUnreadableRecords ==
    ReadHistoryList =>
        /\ call.returned
        /\ NormalizedFrom(call.result, SelectSeq(call.response[1].items, Readable))

\* a response whose records without a usable start time stand before a
\* readable one: the call returned the readable ones, two of them
C28_Witness ==
    /\ ReadHistoryList
    /\ Len(call.response[1].items) = 3
    /\ ~UsableStart(call.response[1].items[2])
    /\ Len(call.result) = 2
    /\ call.result[2].match_id = ToString(1)

(*************************** stored matches are kept ***********************)
\* two payloads for each match id, which differ in date, tournament,
\* participants and winner
RestoreRecords ==
    Records(1..MaxMatchIds, {TickMinutes}, {Some("Cup")}, {<<1, 2>>}, {Some(1)})
    \cup Records(1..MaxMatchIds, {2 * TickMinutes}, {Some("Open")}, {<<2, 3>>}, {Some(2)})

NextRestore == StoreHistoricalMatches(RestoreRecords)

SpecRestore == InitStore /\ [][NextRestore]_vars

\* C29: a HistoricalMatch is never updated once stored: storing a payload whose
\* external id is already stored but whose winner, date, tournament or
\* participants differ leaves the stored row's winner, date, tournament and
\* participant set unchanged, and adds no second row of that id.
C29_StoredMatchIsNeverUpdated ==
    [][call'.op = "store" =>
          \A r \in HistoricalMatch :
              /\ r \in HistoricalMatch'
              /\ RowsOf(HistoricalMatch', r.match_id) = {r}]_vars

\* a payload of one record, storable by itself, met a stored row of its
\* external id with another winner, date, tournament and participant set
C29_Witness ==
    /\ call.op = "store"
    /\ Len(call.batch) = 1
    /\ Valid(call.batch[1])
    /\ \E r \in HistoricalMatch :
           /\ r.match_id = call.batch[1].match_id
           /\ r.winner # call.batch[1].winner_id[1]
           /\ r.date # call.batch[1].date
           /\ Some(r.tournament) # call.batch[1].tournament
           /\ r.teams # Participants(call.batch[1])

(*************************** stored matches and their teams ****************)
\* payloads of two teams and payloads listing one team twice
FaultRecords ==
    Records(1..MaxMatchIds, {TickMinutes}, {Some("Cup")}, {<<1, 2>>, <<1, 1>>}, {Some(1)})

NextStoreFaults ==
    \/ StoreHistoricalMatches(FaultRecords)
    \/ StoreHistoricalMatchesSetFails(FaultRecords)

\* the reconciliation with a database that can fail between the two writes of
\* a record
SpecStoreFaults == InitStore /\ [][NextStoreFaults]_vars

\* C30 (as claimed): every stored HistoricalMatch is associated with at least 2
\* participating teams, all of them existing Team rows; no row is ever left
\* stored without its team set.
C30_StoredMatchHasItsTeams ==
    \A r \in HistoricalMatch :
        /\ Cardinality(r.teams) >= 2
        /\ r.teams \subseteq Team

(*************************** what a prediction reads ***********************)
\* head-to-head mappings the away team could hold instead of its own: none,
\* and an entry for the home team at either end of the scale
AwayH2hVariants(home) ==
    {<<>>} \cup {[k \in {ToString(home)} |-> v] : v \in {Zero, One}}

\* C31: the h2h factor of predict(home, away) is looked up only from the home
\* team's advantage mapping under the away team's external id: a state that
\* differs only in the away team's head-to-head mapping gives the same winner,
\* confidence and factor breakdown.
C31_AwayH2hIsNotRead ==
    call.op = "predict" =>
        /\ \A m \in AwayH2hVariants(call.home) :
               predict([TeamAnalysis EXCEPT ![call.away].h2h_advantage = m],
                       call.home, call.away, now) = call.result
        /\ call.result.factors.h2h =
               (IF ToString(call.away) \in DOMAIN TeamAnalysis[call.home].h2h_advantage
                THEN TeamAnalysis[call.home].h2h_advantage[ToString(call.away)]
                ELSE Half)

\* a prediction whose two teams both hold an entry for each other, the home
\* team's entry deciding the factor
C31_Witness ==
    /\ call.op = "predict"
    /\ ToString(call.home) \in DOMAIN TeamAnalysis[call.away].h2h_advantage
    /\ ToString(call.away) \in DOMAIN TeamAnalysis[call.home].h2h_advantage
    /\ call.result.factors.h2h = One
    /\ TeamAnalysis[call.away].h2h_advantage[ToString(call.home)] = Rat(2, 5)

(*************************** recompute beside a prediction *****************)
\* a recompute and a predictor run side by side, each statement that reaches
\* the database a step of its own
Idle == [pc |-> "idle"]

\* the second match of teams 1 and 2, won by team 2 a day after the first
NewerMatch == Records({2}, {2 * TickMinutes}, {Some("Cup")}, {<<1, 2>>}, {Some(2)})

\* one match stored; the analyses are missing or were computed from it
InitAtomic ==
    /\ Team = {1, 2}
    /\ HistoricalMatch = StoredMatches(1, [i \in {1} |-> 1], [i \in {1} |-> 1])
    /\ \/ TeamAnalysis = <<>>
       \/ TeamAnalysis =
              [t \in Team |->
                  [DefaultAnalysis EXCEPT
                      !.last_ten_winrate = IF t = 1 THEN One ELSE Zero,
                      !.last_match_data = Some(TickMinutes)]]
    /\ now = 3 * TickMinutes
    /\ computed = {}
    /\ call = NoCall
    /\ TeamRow = TeamRowsFor(Team)
    /\ Match = {}
    /\ cache = <<>>
    /\ run = NoRun
    /\ proc = [w \in {"recompute", "predictor"} |-> Idle]

\* update_team_analysis, line 107: get_or_create loads or creates the row
RecomputeGetOrCreate(t) ==
    /\ proc["recompute"].pc = "idle"
    /\ TeamAnalysis' = GetOrCreateAnalysis(TeamAnalysis, t)
    /\ proc' = [proc EXCEPT !["recompute"] =
                   [pc |-> "query", team |-> t, analysis |-> TeamAnalysis'[t]]]
    /\ call' = [op |-> "recompute_load", team |-> t]
    /\ UNCHANGED <<Team, HistoricalMatch, now, computed, TeamRow, Match, cache, run>>

\* lines 110-128: the window is read, the two fields are set on the object; an
\* empty window ends the call
RecomputeQuery ==
    LET p == proc["recompute"]
    IN  /\ p.pc = "query"
        /\ \E W \in RecentWindows(HistoricalMatch, p.team) :
               proc' = [proc EXCEPT !["recompute"] =
                   IF W = {} THEN Idle
                   ELSE [pc |-> "save", team |-> p.team,
                         analysis |->
                             [p.analysis EXCEPT
                                 !.last_ten_winrate =
                                     Rat(Cardinality({r \in W : r.winner = p.team}),
                                         Cardinality(W)),
                                 !.last_match_data = Some(FirstDate(W))]]]
        /\ call' = [op |-> "recompute_query", team |-> p.team]
        /\ UNCHANGED <<Team, TeamAnalysis, HistoricalMatch, now, computed, TeamRow, Match,
                       cache, run>>

\* line 129: analysis.save()
RecomputeSave ==
    LET p == proc["recompute"]
    IN  /\ p.pc = "save"
        /\ TeamAnalysis' = SaveAnalysis(TeamAnalysis, p.team, p.analysis)
        /\ computed' = computed \cup {p.team}
        /\ proc' = [proc EXCEPT !["recompute"] = Idle]
        /\ call' = [op |-> "recompute_save", team |-> p.team]
        /\ UNCHANGED <<Team, HistoricalMatch, now, TeamRow, Match, cache, run>>

\* MatchPredictor.__init__, line 11: the home analysis is loaded or created
PredictorLoadHome(home, away) ==
    /\ proc["predictor"].pc = "idle"
    /\ home # away
    /\ TeamAnalysis' = GetOrCreateAnalysis(TeamAnalysis, home)
    /\ proc' = [proc EXCEPT !["predictor"] =
                   [pc |-> "away", home |-> home, away |-> away,
                    home_analysis |-> TeamAnalysis'[home]]]
    /\ call' = [op |-> "predictor_home", home |-> home, away |-> away]
    /\ UNCHANGED <<Team, HistoricalMatch, now, computed, TeamRow, Match, cache, run>>

\* MatchPredictor.__init__, line 12: the away analysis is loaded or created
PredictorLoadAway ==
    LET p == proc["predictor"]
    IN  /\ p.pc = "away"
        /\ TeamAnalysis' = GetOrCreateAnalysis(TeamAnalysis, p.away)
        /\ proc' = [proc EXCEPT !["predictor"] =
                       [pc |-> "predict", home |-> p.home, away |-> p.away,
                        home_analysis |-> p.home_analysis,
                        away_analysis |-> TeamAnalysis'[p.away]]]
        /\ call' = [op |-> "predictor_away", home |-> p.home, away |-> p.away]
        /\ UNCHANGED <<Team, HistoricalMatch, now, computed, TeamRow, Match, cache, run>>

\* MatchPredictor.predict() on the two objects the constructor loaded
PredictorPredict ==
    LET p == proc["predictor"]
        loaded == [t \in {p.home, p.away} |->
                      IF t = p.home THEN p.home_analysis ELSE p.away_analysis]
    IN  /\ p.pc = "predict"
        /\ proc' = [proc EXCEPT !["predictor"] = Idle]
        /\ call' = [op |-> "predict", home |-> p.home, away |-> p.away,
                    read |-> loaded,
                    result |-> predict(loaded, p.home, p.away, now)]
        /\ UNCHANGED <<Team, TeamAnalysis, HistoricalMatch, now, computed, TeamRow, Match,
                       cache, run>>

NextAtomic ==
    \/ \E t \in Team : RecomputeGetOrCreate(t)
    \/ RecomputeQuery
    \/ RecomputeSave
    \/ \E home \in Team, away \in Team : PredictorLoadHome(home, away)
    \/ PredictorLoadAway
    \/ PredictorPredict
    \/ StoreHistoricalMatches(NewerMatch)

SpecAtomic == InitAtomic /\ [][NextAtomic]_vars

\* the win rate and last-match timestamp a recompute of team t writes over a
\* window of the matches H
WrittenPairs(H, t) ==
    {<<Rat(Cardinality({r \in W : r.winner = t}), Cardinality(W)), Some(FirstDate(W))>> :
        W \in RecentWindows(H, t) \ {{}}}

\* the pairs a TeamAnalysis of t has held as a whole: the defaults of a row just
\* created, and what a recompute wrote over the matches stored at some time
WholePairs(t) ==
    {<<DefaultAnalysis.last_ten_winrate, DefaultAnalysis.last_match_data>>}
    \cup UNION {WrittenPairs(H, t) : H \in SUBSET HistoricalMatch}

\* C32: recompute writes the win rate and the last-match timestamp in one
\* atomic update: a prediction that reads a team's TeamAnalysis while a
\* recompute of that team is in progress observes both old values or both new
\* values, never a new win rate with an old timestamp or the reverse.
C32_RecomputeWriteIsAtomic ==
    call.op = "predict" =>
        \A t \in {call.home, call.away} :
            <<call.read[t].last_ten_winrate, call.read[t].last_match_data>>
                \in WholePairs(t)

\* a prediction that loaded the home analysis between the load and the save
\* of a recompute that changed both of its fields
C32_Witness ==
    /\ call.op = "predict"
    /\ call.home = 1
    /\ call.read[1].last_ten_winrate = One
    /\ call.read[1].last_match_data = Some(TickMinutes)
    /\ TeamAnalysis[1].last_ten_winrate = Half
    /\ TeamAnalysis[1].last_match_data = Some(2 * TickMinutes)

(*************************** the order of a run ****************************)
\* C33: within one batch run every selected team is taken through fetch, then
\* reconcile, then recompute, in that order and at most once: the recompute of
\* a team reads the matches after the team's fetched history has been stored,
\* and a team whose processing failed is not taken up again in the same run.
C33_FetchStoreRecomputeOnce ==
    [][call'.op = "process" =>
          LET team == call'.team
          IN  /\ team = Head(run.queue)
              /\ team \in run.selected
              /\ team \notin run.processed \cup run.failed
              /\ \A i \in DOMAIN run'.queue : run'.queue[i] # team
              /\ run'.selected = run.selected
              /\ (~call'.raised /\ TeamMatches(HistoricalMatch', team) # {}) =>
                    <<TeamAnalysis'[team].last_ten_winrate,
                      TeamAnalysis'[team].last_match_data>>
                        \in WrittenPairs(HistoricalMatch', team)]_vars

\* the second team of a run, processed after the first one failed: its fetched
\* history was stored in this step and its analytics count the stored match
C33_Witness ==
    /\ call.op = "process"
    /\ ~call.raised
    /\ run.failed # {}
    /\ call.stored # {}
    /\ \E r \in call.stored :
           /\ call.team \in r.teams
           /\ TeamAnalysis[call.team].last_match_data = Some(r.date)

(*************************** two workers on the history cache **************)
\* two workers call fetch_team_history side by side; the cache read, the
\* request and the arrival of the response are steps of their own
Workers == {"w1", "w2"}

InitFlight ==
    /\ Team = {}
    /\ TeamAnalysis = <<>>
    /\ HistoricalMatch = {}
    /\ now = 0
    /\ computed = {}
    /\ call = NoCall
    /\ TeamRow = {}
    /\ Match = {}
    /\ cache = <<>>
    /\ run = NoRun
    /\ proc = [w \in Workers |-> Idle]

\* line 227: cache.get; a truthy value is returned at once
HistoryCacheGet(w, team_id) ==
    LET cached_data == CacheGet(cache, CacheKey(team_id), now)
        hit == cached_data # None /\ cached_data[1] # <<>>
    IN  /\ proc[w].pc = "idle"
        /\ cache' = CacheCull(cache, CacheKey(team_id), now)
        /\ proc' = [proc EXCEPT ![w] =
                       IF hit THEN Idle ELSE [pc |-> "miss", team |-> team_id]]
        /\ call' = [op |-> "history_get", worker |-> w, team |-> team_id, hit |-> hit,
                    result |-> IF hit THEN cached_data[1] ELSE <<>>]
        /\ UNCHANGED <<Team, TeamAnalysis, HistoricalMatch, now, computed, TeamRow, Match,
                       run>>

\* line 244: self.session.get sends the request
HistorySend(w) ==
    /\ proc[w].pc = "miss"
    /\ proc' = [proc EXCEPT ![w] = [pc |-> "waiting", team |-> proc[w].team]]
    /\ call' = [op |-> "history_send", worker |-> w, team |-> proc[w].team]
    /\ UNCHANGED <<Team, TeamAnalysis, HistoricalMatch, now, computed, TeamRow, Match,
                   cache, run>>

\* lines 244-259: the response arrives; a readable body is parsed, cached and
\* returned, anything else returns the empty list
HistoryReceive(w, response) ==
    LET team_id == proc[w].team
        o == fetch_team_history(team_id, response, <<>>, now)
        stored == CacheKey(team_id) \in DOMAIN o.cache
    IN  /\ proc[w].pc = "waiting"
        /\ cache' = IF stored
                    THEN CacheSet(cache, CacheKey(team_id), o.value, CacheTimeout, now)
                    ELSE cache
        /\ proc' = [proc EXCEPT ![w] = Idle]
        /\ call' = [op |-> "history_return", worker |-> w, team |-> team_id,
                    result |-> o.value]
        /\ UNCHANGED <<Team, TeamAnalysis, HistoricalMatch, now, computed, TeamRow, Match,
                       run>>

NextFlight ==
    \/ \E w \in Workers, t \in HistoryTeams : HistoryCacheGet(w, t)
    \/ \E w \in Workers : HistorySend(w)
    \/ \E w \in Workers, r \in PipelineHistoryResponses : HistoryReceive(w, r)

SpecFlight == InitFlight /\ [][NextFlight]_vars

\* C34 (as claimed): single-flight on the history cache: of two workers that
\* call fetch_team_history for the same team, at most one has a network fetch
\* in flight for that key.
C34_SingleFlight ==
    \A w1 \in Workers, w2 \in Workers :
        (w1 # w2 /\ proc[w1].pc = "waiting" /\ proc[w2].pc = "waiting")
            => proc[w1].team # proc[w2].team

(*************************** the total of the two scores *******************)
InUnitInterval(x) == RLeq(Zero, x) /\ RLeq(x, One)

\* C35: for win-rate, h2h and fatigue factors in [0,1] the total homeScore +
\* awayScore is at least 0.3, so the zero-total branch of predict is not taken:
\* the winner is defined and the reported confidence lies in [0.5, 1].
C35_TotalIsAtLeastThreeTenths ==
    (/\ call.op = "predict"
     /\ InUnitInterval(call.result.factors.winrate.home)
     /\ InUnitInterval(call.result.factors.winrate.away)
     /\ InUnitInterval(call.result.factors.h2h)
     /\ InUnitInterval(call.result.factors.fatigue.home)
     /\ InUnitInterval(call.result.factors.fatigue.away))
    => /\ RLeq(Rat(3, 1), RAdd(HomeScoreTimes10(call.result.factors),
                               AwayScoreTimes10(call.result.factors)))
       /\ call.result.winner \in {Some(call.home), Some(call.away)}
       /\ RLeq(Half, call.result.confidence)
       /\ RLeq(call.result.confidence, One)

\* win rates and fatigue factors all 0 and the head-to-head wholly the home
\* team's: the total is 0.3 and the home team wins with confidence 1
C35_Witness ==
    /\ call.op = "predict"
    /\ call.result.factors.winrate = [home |-> Zero, away |-> Zero]
    /\ call.result.factors.fatigue = [home |-> Zero, away |-> Zero]
    /\ call.result.factors.h2h = One
    /\ call.result.winner = Some(call.home)
    /\ call.result.confidence = One

(*************************** two runs of the store *************************)
\* the position of a run in its payload
AtRecord(batch, i) ==
    [pc |-> IF i > Len(batch) THEN "done" ELSE "check", batch |-> batch, i |-> i]

\* two runs of store_historical_matches side by side, each with a payload of its
\* own; the exists test and the try block of a record are steps of their own
InitRace ==
    /\ Team = TeamIds
    /\ TeamAnalysis = <<>>
    /\ HistoricalMatch = {}
    /\ now = 0
    /\ computed = {}
    /\ call = NoCall
    /\ TeamRow = TeamRowsFor(Team)
    /\ Match = {}
    /\ cache = <<>>
    /\ run = NoRun
    /\ proc \in [Workers -> {AtRecord(b, 1) : b \in Batches(RestoreRecords, MaxBatch)}]

\* lines 76-77: the exists test, outside the try block
StoreCheck(w) ==
    LET p == proc[w]
    IN  /\ p.pc = "check"
        /\ proc' = [proc EXCEPT ![w] =
                       IF MatchExists(HistoricalMatch, p.batch[p.i].match_id)
                       THEN AtRecord(p.batch, p.i + 1)
                       ELSE [p EXCEPT !.pc = "create"]]
        /\ call' = [op |-> "store_check", worker |-> w,
                    exists |-> MatchExists(HistoricalMatch, p.batch[p.i].match_id)]
        /\ UNCHANGED <<Team, TeamAnalysis, HistoricalMatch, now, computed, TeamRow, Match,
                       cache, run>>

\* lines 79-103: the try block of the record, then the next record
StoreCreate(w) ==
    LET p == proc[w]
    IN  /\ p.pc = "create"
        /\ HistoricalMatch' = TryCreate(HistoricalMatch, Team, p.batch[p.i])
        /\ proc' = [proc EXCEPT ![w] = AtRecord(p.batch, p.i + 1)]
        /\ call' = [op |-> "store_create", worker |-> w,
                    raised |-> CreateRaises(HistoricalMatch, p.batch[p.i])]
        /\ UNCHANGED <<Team, TeamAnalysis, now, computed, TeamRow, Match, cache, run>>

NextRace ==
    \/ \E w \in Workers : StoreCheck(w)
    \/ \E w \in Workers : StoreCreate(w)

SpecRace == InitRace /\ [][NextRace]_vars

\* C36: when two runs of store_historical_matches process a record of the same
\* external match id side by side, under every interleaving of their exists
\* tests and creates exactly one HistoricalMatch row of that id is stored, and
\* neither run stops before the end of its payload: once both are done, every
\* match id of either payload is stored.
C36_OneRowPerConcurrentId ==
    /\ \A r \in HistoricalMatch : RowsOf(HistoricalMatch, r.match_id) = {r}
    /\ (\A w \in Workers : proc[w].pc = "done") =>
           \A w \in Workers : \A i \in DOMAIN proc[w].batch :
               Cardinality(RowsOf(HistoricalMatch, proc[w].batch[i].match_id)) = 1

\* both runs passed the exists test of the same match id before either
\* created it; the create of the second raised and the run went on to store
\* its next record
C36_Witness ==
    /\ call.op = "store_create"
    /\ call.raised
    /\ \A w \in Workers : proc[w].pc = "done"
    /\ Len(proc[call.worker].batch) = 2
    /\ proc[call.worker].batch[1].match_id # proc[call.worker].batch[2].match_id
    /\ \E r \in HistoricalMatch :
           /\ r.match_id = proc[call.worker].batch[2].match_id
           /\ IsRowOf(r, proc[call.worker].batch[2])

(*************************** a failed fetch and the cache ******************)
\* the call asked the provider and came back empty-handed because the request
\* failed, the body was not a JSON list, or none of its records could be read
FetchFailed(c) ==
    /\ c.op = "fetch_team_history"
    /\ c.requests = 1
    /\ c.result = <<>>
    /\ Failed(c.response[1]) \/ c.response[1].items # <<>>

\* C37 (as claimed): a failed history fetch is never cached: after a call that
\* returned the empty sequence because the request or the parsing of the
\* response failed, the cache holds no entry for that team.
C37_FailedFetchLeavesNoEntry ==
    [][FetchFailed(call') => CacheKey(call'.team) \notin DOMAIN cache']_vars

\* C37 (amended): a failed history fetch is never served from the cache: a
\* request that fails, or whose body is not JSON, writes nothing to the cache;
\* a body that yields no record stores the empty list, which the cache test
\* takes for a miss; in every case the next call for the same team issues a
\* network request again.
C37_FailedFetchIsFetchedAgain ==
    [][FetchFailed(call') =>
          LET key == CacheKey(call'.team)
              r == call'.response[1]
          IN  /\ (r.status # 200 \/ r.json = "invalid") =>
                    cache' = CacheCull(cache, key, now)
              /\ key \in DOMAIN cache' => cache'[key].value = <<>>
              /\ \A next \in HistoryResponses :
                    fetch_team_history(call'.team, next, cache', now').requests = 1]_vars

\* a call whose response was a list of one unreadable record: the empty list is
\* in the cache, not yet expired
C37_Witness ==
    /\ FetchFailed(call)
    /\ call.response[1].status = 200
    /\ call.response[1].json = "list"
    /\ CacheKey(call.team) \in DOMAIN cache
    /\ cache[CacheKey(call.team)].value = <<>>
    /\ now < cache[CacheKey(call.team)].expires

(*************************** runs a day and more apart *********************)
\* runs of the command over two days, with and without the force flag
NextStale ==
    \/ \E force \in BOOLEAN : HandleStart(force, None)
    \/ \E r \in RunHistoryResponses : ProcessTeamStamped(r)
    \/ ProcessTeamFetchFails
    \/ Tick

SpecStale == InitRun /\ [][NextStale]_vars

\* C38 (as claimed): after a run has recomputed a team's analytics, a run
\* without the force flag that starts less than 24 hours later does not select
\* that team, and one that starts more than 24 hours later does.
C38_SelectedAgainAfterADay ==
    (call.op = "select" /\ ~call.force) =>
        \A t \in DOMAIN proc :
            /\ now - proc[t] < 24 * MinutesPerHour => t \notin call.teams
            /\ now - proc[t] > 24 * MinutesPerHour => t \in call.teams

(*************************** what a run writes to the analytics ************)
\* the teams exist with analytics computed earlier, or with none
InitFrame ==
    /\ Team = 1..MaxPipelineTeams
    /\ TeamAnalysis \in {<<>>, [t \in Team |-> PriorAnalysis]}
    /\ HistoricalMatch = {}
    /\ now = 0
    /\ computed = {}
    /\ call = NoCall
    /\ TeamRow = TeamRowsFor(Team)
    /\ Match = {}
    /\ cache = <<>>
    /\ run = NoRun
    /\ proc = NoProc

SpecFrame == InitFrame /\ [][NextRun]_vars

\* C39: process_team(X) changes the analytics of X only, and only its win rate
\* and last-match timestamp: the head-to-head mapping of X and the whole
\* TeamAnalysis of every other team are left unchanged, even when the run stores
\* new historical matches in which those other teams took part.
C39_ProcessTeamWritesOwnAnalytics ==
    [][call'.op = "process" =>
          /\ DOMAIN TeamAnalysis' \subseteq DOMAIN TeamAnalysis \cup {call'.team}
          /\ \A t \in DOMAIN TeamAnalysis :
                /\ t \in DOMAIN TeamAnalysis'
                /\ TeamAnalysis'[t].h2h_advantage = TeamAnalysis[t].h2h_advantage
                /\ t # call'.team => TeamAnalysis'[t] = TeamAnalysis[t]]_vars

\* a team was processed, a match of it and of another team being stored: its
\* win rate and timestamp are new, its head-to-head mapping and the other
\* team's analytics are the earlier ones
C39_Witness ==
    /\ call.op = "process"
    /\ ~call.raised
    /\ call.stored # {}
    /\ DOMAIN TeamAnalysis = Team
    /\ TeamAnalysis[call.team].h2h_advantage = PriorAnalysis.h2h_advantage
    /\ TeamAnalysis[call.team].last_match_data # PriorAnalysis.last_match_data
    /\ \E t \in Team \ {call.team} :
           /\ TeamAnalysis[t] = PriorAnalysis
           /\ \E r \in call.stored : t \in r.teams

(*************************** the two recompute implementations *************)
\* teams 1 and 2 with no stored match, one, or one more than the window holds,
\* team 3 without any; every team has its analysis row, fresh or holding
\* earlier values
InitAgree ==
    /\ Team = {1, 2, 3}
    /\ \E n \in {0, 1, WindowSize + 1} : \E winners \in OldestWinners(n) :
           \E dates \in DateSchemes(n) :
               HistoricalMatch = StoredMatches(n, winners, dates)
    /\ \E a \in {DefaultAnalysis, PriorAnalysis} : TeamAnalysis = [t \in Team |-> a]
    /\ now = 0
    /\ computed = {}
    /\ call = NoCall
    /\ TeamRow = TeamRowsFor(Team)
    /\ Match = {}
    /\ cache = <<>>
    /\ run = NoRun
    /\ proc = NoProc

\* either implementation recomputes a team
NextAgree ==
    \/ \E t \in Team : UpdateTeamAnalysis(t)
    \/ \E t \in Team : UpdateFromHistory(t)

SpecAgree == InitAgree /\ [][NextAgree]_vars

\* the win rate and last-match timestamp of a row
Analytics(row) == <<row.last_ten_winrate, row.last_match_data>>

\* what Command.update_team_analysis can leave in the row of team t
CommandOutcomes(A, H, t) ==
    {Analytics(update_team_analysis(A, t, W)[t]) : W \in RecentWindows(H, t)}

\* what TeamAnalysis.update_from_history can leave in the row of team t
MethodOutcomes(A, H, t) ==
    {Analytics(update_from_history(A, H, t, ids, counted)[t]) :
        ids \in RecentWindows(H, t), counted \in RecentWindows(H, t)}

====
